---- MODULE Spec2Model ----
(***************************************************************************)
(* Node execution engine of libnodegl (nodes.c): node lifecycle state      *)
(* machine, context attachment, reference counting, the per-frame visit /  *)
(* release-prefetch / update walks and the GL state scoping around draw.   *)
(***************************************************************************)
EXTENDS Integers, Sequences, FiniteSets, TLC

(***************************************************************************)
(* Bounds of the exploration.                                              *)
(***************************************************************************)
MaxTime == 1        \* frame timestamps are 0..MaxTime
MaxRef  == 2        \* references the application holds on one node
MaxInits == 2       \* class init calls without uninit that are told apart
MaxPriv == 5        \* the private data of a node is at most MaxPriv 4-byte words
MaxVal  == 1        \* uniform values: integers within MaxVal of 0

(***************************************************************************)
(* Program constants.                                                      *)
(***************************************************************************)
NULL == 0                       \* null pointer (node, context)
InitTime == -1                  \* node_create: last_update_time = visit_time = -1.
Never == InitTime - 1            \* no timestamp at all (history only)
STATE_UNINITIALIZED == "UNINITIALIZED"
STATE_INITIALIZED   == "INITIALIZED"
STATE_READY         == "READY"
STATE_IDLE          == "IDLE"
States == {STATE_UNINITIALIZED, STATE_INITIALIZED, STATE_READY, STATE_IDLE}

Times == 0..MaxTime
Contexts == {1, 2}
ErrCodes == {-1}

(***************************************************************************)
(* Node classes: the callback set nodes.c dispatches on.  A field is TRUE  *)
(* when the class defines the callback (the pointer is not NULL).          *)
(***************************************************************************)
NoCallbacks ==
    [init |-> FALSE, prefetch |-> FALSE, release |-> FALSE, uninit |-> FALSE,
     update |-> FALSE, draw |-> FALSE, visit |-> FALSE]

\* A class using the whole callback set with the default visit.
FullClass ==
    [NoCallbacks EXCEPT !.init = TRUE, !.prefetch = TRUE, !.release = TRUE,
                        !.uninit = TRUE, !.update = TRUE, !.draw = TRUE]

\* DECLARE_RENDEROTHER: init, update, draw, uninit; no prefetch, no release.
RenderClass ==
    [NoCallbacks EXCEPT !.init = TRUE, !.update = TRUE, !.draw = TRUE, !.uninit = TRUE]

\* DEFINE_UNIFORM_CLASS with uniform<type>_update == NULL: init only.
UniformClass == [NoCallbacks EXCEPT !.init = TRUE]

\* DEFINE_UNIFORM_CLASS for quat and mat4: init and update.
UniformQuatClass == [NoCallbacks EXCEPT !.init = TRUE, !.update = TRUE]

\* A class that overrides visit (runtime-selected branches), full set otherwise.
FilterClass == [FullClass EXCEPT !.visit = TRUE]

\* A container class: its draw callback draws its children in order.
GroupClass == [NoCallbacks EXCEPT !.update = TRUE, !.draw = TRUE]

\* GL state override classes carry parameters only.
GLStateClass == NoCallbacks
GLStateIds == {"GLBlendState", "GLColorState", "GLPolygonModeState",
               "GLStencilState", "GLState"}

ClassOf(name) ==
    CASE name = "Full"        -> FullClass
      [] name = "Render"      -> RenderClass
      [] name = "Uniform"     -> UniformClass
      [] name = "UniformQuat" -> UniformQuatClass
      [] name = "Filter"      -> FilterClass
      [] name = "Group"       -> GroupClass
      [] OTHER                -> GLStateClass

(***************************************************************************)
(* GL data.  The driver state tracked by the state overrides, and the      *)
(* private data of an override node (struct glstate).                      *)
(***************************************************************************)
GLVals == {1, 2}
GLCaps == {"BLEND", "STENCIL_TEST", "DEPTH_TEST"}

\* the driver with every capability at de and every value at dv
DriverState(de, dv) ==
    [caps |-> [c \in GLCaps |-> de],
     blend_src_rgb |-> dv, blend_dst_rgb |-> dv,
     blend_src_alpha |-> dv, blend_dst_alpha |-> dv,
     blend_equation_rgb |-> dv, blend_equation_alpha |-> dv,
     color_writemask |-> <<de, de, de, de>>,
     polygon_mode |-> dv,
     stencil_writemask |-> dv, stencil_func |-> dv, stencil_ref |-> dv,
     stencil_value_mask |-> dv, stencil_fail |-> dv,
     stencil_pass_depth_fail |-> dv, stencil_pass_depth_pass |-> dv]

NoMask == <<0, 0, 0, 0>>

\* the capability an override class drives
CapabilityOf(id) ==
    CASE id = "GLBlendState"   -> "BLEND"
      [] id = "GLStencilState" -> "STENCIL_TEST"
      [] id = "GLState"        -> "DEPTH_TEST"
      [] OTHER                 -> "NONE"

\* a zero-allocated struct glstate whose parameters are set to e (enable
\* flag and colour mask) and v (every other value)
GLStateOf(id, e, v) ==
    [capability |-> CapabilityOf(id),
     enabled |-> <<e, 0>>,
     src_rgb |-> <<v, 0>>, dst_rgb |-> <<v, 0>>,
     src_alpha |-> <<v, 0>>, dst_alpha |-> <<v, 0>>,
     mode_rgb |-> <<v, 0>>, mode_alpha |-> <<v, 0>>,
     rgba |-> <<<<e, e, e, e>>, NoMask>>,
     mode |-> <<v, 0>>,
     writemask |-> <<v, 0>>, func |-> <<v, 0>>, func_ref |-> <<v, 0>>,
     func_mask |-> <<v, 0>>, op_sfail |-> <<v, 0>>, op_dpfail |-> <<v, 0>>,
     op_dppass |-> <<v, 0>>]

\* the bytes of a struct glstate that are not parameters, zeroed
ClearSnapshots(s) ==
    [f \in DOMAIN s |->
        IF f = "capability" THEN s[f]
        ELSE IF f = "rgba" THEN <<s[f][1], NoMask>>
        ELSE <<s[f][1], 0>>]

(***************************************************************************)
(* Scene graphs.  params[n] is the ordered list of the nodes held by the   *)
(* node-typed parameters of n's class (single, list and dict entries in    *)
(* schema order); glstates[n] is the base parameter "glstates".            *)
(***************************************************************************)
Diamond(c4) ==
    [nodes    |-> {1, 2, 3, 4},
     params   |-> (1 :> <<2, 3>>) @@ (2 :> <<4>>) @@ (3 :> <<4>>) @@ (4 :> <<>>),
     glstates |-> (1 :> <<>>) @@ (2 :> <<>>) @@ (3 :> <<>>) @@ (4 :> <<>>),
     class    |-> (1 :> "Full") @@ (2 :> "Full") @@ (3 :> "Filter") @@ (4 :> c4)]

\* the diamond over classes that all use the default visit
Kite ==
    [nodes    |-> {1, 2, 3, 4},
     params   |-> (1 :> <<2, 3>>) @@ (2 :> <<4>>) @@ (3 :> <<4>>) @@ (4 :> <<>>),
     glstates |-> (1 :> <<>>) @@ (2 :> <<>>) @@ (3 :> <<>>) @@ (4 :> <<>>),
     class    |-> (1 :> "Full") @@ (2 :> "Full") @@ (3 :> "Render") @@ (4 :> "Uniform")]

Triangle ==
    [nodes    |-> {1, 2, 3},
     params   |-> (1 :> <<3, 2>>) @@ (2 :> <<3>>) @@ (3 :> <<>>),
     glstates |-> (1 :> <<>>) @@ (2 :> <<>>) @@ (3 :> <<>>),
     class    |-> (1 :> "Render") @@ (2 :> "Filter") @@ (3 :> "Full")]

WithState ==
    [nodes    |-> {1, 2, 3},
     params   |-> (1 :> <<2>>) @@ (2 :> <<>>) @@ (3 :> <<>>),
     glstates |-> (1 :> <<3>>) @@ (2 :> <<>>) @@ (3 :> <<>>),
     class    |-> (1 :> "Full") @@ (2 :> "UniformQuat") @@ (3 :> "GLState")]

Pair(c1, c2) ==
    [nodes    |-> {1, 2},
     params   |-> (1 :> <<2>>) @@ (2 :> <<>>),
     glstates |-> (1 :> <<>>) @@ (2 :> <<>>),
     class    |-> (1 :> c1) @@ (2 :> c2)]

Stated ==
    [nodes    |-> {1, 2},
     params   |-> (1 :> <<>>) @@ (2 :> <<>>),
     glstates |-> (1 :> <<2>>) @@ (2 :> <<>>),
     class    |-> (1 :> "Full") @@ (2 :> "GLState")]

\* a node with two entries in its override list, the second of a class with
\* an init callback (the list holds nodes of any class)
TwoStates ==
    [nodes    |-> {1, 2, 3},
     params   |-> (1 :> <<>>) @@ (2 :> <<>>) @@ (3 :> <<>>),
     glstates |-> (1 :> <<2, 3>>) @@ (2 :> <<>>) @@ (3 :> <<>>),
     class    |-> (1 :> "Full") @@ (2 :> "GLState") @@ (3 :> "Uniform")]

\* a drawable with the override list L over the override nodes 2 and 3
Flat(k2, k3, L) ==
    [nodes    |-> {1, 2, 3},
     params   |-> (1 :> <<>>) @@ (2 :> <<>>) @@ (3 :> <<>>),
     glstates |-> (1 :> L) @@ (2 :> <<>>) @@ (3 :> <<>>),
     class    |-> (1 :> "Render") @@ (2 :> k2) @@ (3 :> k3)]

\* a container with override 2 drawing a node with the override list L
Nested(k2, k3, L) ==
    [nodes    |-> {1, 2, 3, 4},
     params   |-> (1 :> <<4>>) @@ (2 :> <<>>) @@ (3 :> <<>>) @@ (4 :> <<>>),
     glstates |-> (1 :> <<2>>) @@ (2 :> <<>>) @@ (3 :> <<>>) @@ (4 :> L),
     class    |-> (1 :> "Group") @@ (2 :> k2) @@ (3 :> k3) @@ (4 :> "Render")]

\* scenes of the draw specification
DrawGraphs ==
    {Flat(k2, k3, L) : k2 \in GLStateIds, k3 \in GLStateIds,
                       L \in {<<2>>, <<2, 3>>, <<2, 2>>}}
    \cup {Nested(k2, k3, L) : k2 \in GLStateIds, k3 \in GLStateIds,
                              L \in {<<3>>, <<2>>}}

\* two parents that hold the same child, neither below the other
Vee ==
    [nodes    |-> {1, 2, 3},
     params   |-> (1 :> <<3>>) @@ (2 :> <<3>>) @@ (3 :> <<>>),
     glstates |-> (1 :> <<>>) @@ (2 :> <<>>) @@ (3 :> <<>>),
     class    |-> (1 :> "Full") @@ (2 :> "Filter") @@ (3 :> "Full")]

\* scenes of the context specification
CtxGraphs == {Vee}

\* scenes of the initialisation specification
InitGraphs == {Stated, TwoStates}

\* scenes of the visit specification
VisitGraphs == {WithState, Triangle, Pair("Render", "Uniform")}

\* scenes of the frame engine specification
Graphs == {Pair("Filter", "Render"), Stated}
\* scenes of the update specification
UpdateGraphs == {Pair("Full", "Render"), Pair("UniformQuat", "Uniform"), Stated}
\* scenes of the lifecycle specification
LifeGraphs == {Pair("Filter", "Full"), Pair("Render", "Uniform"), Stated}
\* graphs with shared sub-trees, for the two walks of a frame
SharedGraphs == {Diamond("Full"), Diamond("Render"), Kite, Triangle, WithState}

(***************************************************************************)
(* The private data of a node: class->priv_size bytes, of which the class  *)
(* parameters (class->params: a type and an offset each) cover some.  The  *)
(* sizes are those of an LP64 build; byte k of the block is element k + 1. *)
(***************************************************************************)
ParamTypes == {"PARAM_TYPE_INT", "PARAM_TYPE_NODE", "PARAM_TYPE_NODELIST"}
opt_sizes(type) ==
    CASE type = "PARAM_TYPE_INT"      -> 4
      [] type = "PARAM_TYPE_NODE"     -> 8
      [] type = "PARAM_TYPE_NODELIST" -> 8 + 4
\* what the C compiler gives a field of the type: its alignment
AlignOf(type) == IF type = "PARAM_TYPE_INT" THEN 4 ELSE 8

\* bytes of a private data block
ZeroByte  == 0      \* calloc, memset(.., 0, ..)
ParamByte == 1      \* a byte of a parameter value
InitByte  == 2      \* a byte written by the class init callback

NoPriv == [params |-> <<>>, priv_size |-> 0]
\* the end of parameter i of a schema
EndOf(par, i) == par[i].offset + opt_sizes(par[i].type)
\* a struct and its parameter table as the classes declare them: the fields
\* inside the struct, aligned, in the order of the struct
Declared(l) ==
    /\ l.priv_size % 4 = 0
    /\ \A i \in 1..Len(l.params) :
          /\ l.params[i].offset % AlignOf(l.params[i].type) = 0
          /\ EndOf(l.params, i) <= l.priv_size
          /\ i > 1 => EndOf(l.params, i - 1) <= l.params[i].offset
Param == [type : ParamTypes, offset : {4 * k : k \in 0..(MaxPriv - 1)}]
Layouts ==
    {l \in [params : {<<>>} \cup {<<p>> : p \in Param} \cup {<<p, q>> : p, q \in Param},
            priv_size : {4 * k : k \in 0..MaxPriv}] : Declared(l)}

\* the bytes of the block that belong to a parameter
Covered(l) ==
    {k \in 0..(l.priv_size - 1) :
        \E i \in 1..Len(l.params) : l.params[i].offset <= k /\ k < EndOf(l.params, i)}
\* the block after node_create: zero-allocated, then the parameter defaults
Defaults(l) ==
    [k \in 1..l.priv_size |-> IF (k - 1) \in Covered(l) THEN ParamByte ELSE ZeroByte]

VARIABLES
    graph,              \* the scene graph built by the application
    alive,              \* alive[n]: the node is allocated (not freed)
    refcount,           \* node->refcount
    ctx,                \* node->ctx (NULL or a context)
    state,              \* node->state
    is_active,          \* node->is_active
    visit_time,         \* node->visit_time
    last_update_time,   \* node->last_update_time
    balance,            \* successful class prefetch calls minus class release calls
    updated,            \* timestamp of the last successful ngli_node_update, or Never
    log,                \* class callbacks and walk steps of the last operation
    lastOp,             \* the last operation, its arguments and its result
    aborted,            \* an ngli_assert failed: the process is gone
    gl,                 \* the state of the GL driver
    st,                 \* st[n]: struct glstate of a state override node
    layout,             \* layout[n]: class->params and class->priv_size of the node
    priv_data,          \* priv_data[n]: the bytes of node->priv_data
    inits,              \* class init calls from a successful one on, with no class uninit since
    walk,               \* the call stack of a walk of the graph in progress
    calc                \* the arguments and the result of a function of one node

vars == <<graph, alive, refcount, ctx, state, is_active, visit_time,
          last_update_time, balance, updated, log, lastOp, aborted, gl, st,
          layout, priv_data, inits, walk, calc>>

Nodes == graph.nodes
params(n) == graph.params[n]
glstates(n) == graph.glstates[n]
class(n) == ClassOf(graph.class[n])

(***************************************************************************)
(* The memory the engine works on, threaded through the calls of one       *)
(* operation: the node fields, the callback log, the value returned by the *)
(* last call (ret) and whether an ngli_assert has failed (abort).          *)
(***************************************************************************)
Mem ==
    [alive |-> alive, refcount |-> refcount, ctx |-> ctx, state |-> state,
     is_active |-> is_active, visit_time |-> visit_time,
     last_update_time |-> last_update_time, balance |-> balance,
     gl |-> gl, st |-> st, priv_data |-> priv_data,
     log |-> <<>>, ret |-> 0, abort |-> FALSE]

\* One step recorded in the log.  flag: for "visit" the activity handed down
\* by the caller; for "reconcile" whether the walk went below the node.
\* notready: for "prefetch", the children that were not READY at the call.
\* seen: for "draw", the driver state the draw callback renders with.
Ev(cb, n, ok, from, flag) ==
    [cb |-> cb, node |-> n, ok |-> ok, from |-> from, flag |-> flag, notready |-> {},
     seen |-> NULL]

Emit(M, ev) == [M EXCEPT !.log = Append(@, ev)]
Ret(M, r) == [M EXCEPT !.ret = r]
Abort(M) == [M EXCEPT !.abort = TRUE]
Stop(M) == M.abort \/ M.ret < 0

\* The environment of one operation: the frame time, the class callback that
\* fails when invoked (if any) with its error code, and the nodes whose visit
\* override resolves to inactive.
NoFail == <<"none", NULL>>
Fails(e, cb, n) == e.fail = <<cb, n>>

KidsNotReady(M, n) ==
    {params(n)[i] : i \in {j \in 1..Len(params(n)) : M.state[params(n)[j]] # STATE_READY}}
PrefetchEv(M, n, ok) ==
    [Ev("prefetch", n, ok, NULL, FALSE) EXCEPT !.notready = KidsNotReady(M, n)]

\* node_release that only spares an UNINITIALIZED node
node_release_any(M, n) ==
    IF M.state[n] = STATE_UNINITIALIZED THEN M
    ELSE IF M.ctx[n] = NULL THEN Abort(M)
    ELSE LET M1 == IF class(n).release
                   THEN [Emit(M, Ev("release", n, TRUE, NULL, FALSE))
                            EXCEPT !.balance[n] = @ - 1]
                   ELSE M
         IN [M1 EXCEPT !.state[n] = STATE_IDLE]

node_release(M, n) ==
    IF M.state[n] # STATE_READY THEN M
    ELSE IF M.ctx[n] = NULL THEN Abort(Emit(M, Ev("assert", n, FALSE, NULL, FALSE)))
    ELSE LET M1 == IF class(n).release
                   THEN [Emit(M, Ev("release", n, TRUE, NULL, FALSE))
                            EXCEPT !.balance[n] = @ - 1]
                   ELSE M
         IN [M1 EXCEPT !.state[n] = STATE_IDLE]

\* memset(base_ptr + from, 0, len); the length is a size_t, so that a
\* negative difference is a length beyond any block
\* the outcome of a memset that leaves the block: the heap is corrupted
Overrun == <<-1>>

\* memset(base_ptr + from, 0, len) on the bytes of a block of size bytes
memset(bytes, from, len) ==
    IF bytes = Overrun \/ len < 0 \/ from + len > Len(bytes) THEN Overrun
    ELSE [k \in 1..Len(bytes) |-> IF from < k /\ k <= from + len THEN ZeroByte ELSE bytes[k]]

RECURSIVE ResetFrom(_, _, _, _)
\* the loop of reset_non_params from parameter i on, and the memset after it
ResetFrom(bytes, par, i, cur_offset) ==
    IF i > Len(par)
    THEN memset(bytes, cur_offset, Len(bytes) - cur_offset)
    ELSE ResetFrom(IF par[i].offset # cur_offset
                   THEN memset(bytes, cur_offset, par[i].offset - cur_offset)
                   ELSE bytes,
                   par, i + 1, par[i].offset + opt_sizes(par[i].type))

\* a reset that clears only what follows the last parameter
reset_non_params_tail(M, n) ==
    LET par   == layout[n].params
        from  == IF par = <<>> THEN 0 ELSE EndOf(par, Len(par))
        bytes == memset(M.priv_data[n], from, layout[n].priv_size - from)
        M1    == Emit(M, Ev("reset", n, TRUE, NULL, FALSE))
    IN IF bytes = Overrun THEN Abort(M1)
       ELSE [M1 EXCEPT !.priv_data[n] = bytes, !.st[n] = ClearSnapshots(@)]

\* the snapshots of a struct glstate are fields that are not parameters
reset_non_params(M, n) ==
    LET bytes == ResetFrom(M.priv_data[n], layout[n].params, 1, 0)
        M1    == Emit(M, Ev("reset", n, TRUE, NULL, FALSE))
    IN IF bytes = Overrun THEN Abort(M1)
       ELSE [M1 EXCEPT !.priv_data[n] = bytes, !.st[n] = ClearSnapshots(@)]

\* a node_uninit that runs the class uninit callback before the release
node_uninit_first(M, n) ==
    IF M.state[n] = STATE_UNINITIALIZED THEN M
    ELSE IF M.ctx[n] = NULL THEN Abort(M)
    ELSE LET M1 == IF class(n).uninit
                   THEN Emit(M, Ev("uninit", n, TRUE, NULL, FALSE))
                   ELSE M
             M2 == node_release(M1, n)
             M3 == reset_non_params(M2, n)
         IN [M3 EXCEPT !.state[n] = STATE_UNINITIALIZED]

node_uninit(M, n) ==
    IF M.state[n] = STATE_UNINITIALIZED THEN M
    ELSE IF M.ctx[n] = NULL THEN Abort(Emit(M, Ev("assert", n, FALSE, NULL, FALSE)))
    ELSE LET M1 == node_release(M, n)
             M2 == IF class(n).uninit
                   THEN Emit(M1, Ev("uninit", n, TRUE, NULL, FALSE))
                   ELSE M1
             M3 == reset_non_params(M2, n)
         IN [M3 EXCEPT !.state[n] = STATE_UNINITIALIZED]

\* the class init callback: it writes what it derives from the parameters
\* into the other fields of the private data, before it can fail
class_init(M, n) ==
    [M EXCEPT !.priv_data[n] =
        [k \in 1..Len(@) |-> IF (k - 1) \in Covered(layout[n]) THEN @[k] ELSE InitByte]]

RECURSIVE ngli_node_init(_, _, _)
RECURSIVE InitStates(_, _, _, _)

\* the loop of ngli_node_init over node->glstates
InitStates(M, e, n, i) ==
    IF i > Len(glstates(n)) THEN Ret(M, 0)
    ELSE LET M1 == ngli_node_init(M, e, glstates(n)[i])
         IN IF Stop(M1) THEN M1 ELSE InitStates(M1, e, n, i + 1)

\* an initialisation that runs again on an IDLE node
ngli_node_init_idle(M, e, n) ==
    IF M.state[n] \in {STATE_INITIALIZED, STATE_READY} THEN Ret(M, 0)
    ELSE IF M.ctx[n] = NULL THEN Abort(M)
    ELSE LET bad == class(n).init /\ Fails(e, "init", n)
             M1 == IF class(n).init
                   THEN class_init(Emit(M, Ev("init", n, ~bad, NULL, FALSE)), n)
                   ELSE M
         IN IF bad THEN Ret(M1, e.code)
            ELSE LET M2 == InitStates(M1, e, n, 1)
                 IN IF Stop(M2) THEN M2
                    ELSE [M2 EXCEPT !.state[n] = STATE_INITIALIZED, !.ret = 0]

\* an initialisation that leaves the state overrides of the node alone
ngli_node_init_alone(M, e, n) ==
    IF M.state[n] # STATE_UNINITIALIZED THEN Ret(M, 0)
    ELSE IF M.ctx[n] = NULL THEN Abort(M)
    ELSE LET bad == class(n).init /\ Fails(e, "init", n)
             M1 == IF class(n).init
                   THEN class_init(Emit(M, Ev("init", n, ~bad, NULL, FALSE)), n)
                   ELSE M
         IN IF bad THEN Ret(M1, e.code)
            ELSE [M1 EXCEPT !.state[n] = STATE_INITIALIZED, !.ret = 0]

ngli_node_init(M, e, n) ==
    IF M.state[n] # STATE_UNINITIALIZED THEN Ret(M, 0)
    ELSE IF M.ctx[n] = NULL THEN Abort(M)
    ELSE LET bad == class(n).init /\ Fails(e, "init", n)
             M1 == IF class(n).init
                   THEN class_init(Emit(M, Ev("init", n, ~bad, NULL, FALSE)), n)
                   ELSE M
         IN IF bad THEN Ret(M1, e.code)
            ELSE LET M2 == InitStates(M1, e, n, 1)
                 IN IF Stop(M2) THEN M2
                    ELSE [M2 EXCEPT !.state[n] = STATE_INITIALIZED, !.ret = 0]

\* node_prefetch without its early return on a READY node
node_prefetch_again(M, e, n) ==
    LET M1 == ngli_node_init(M, e, n)
    IN IF Stop(M1) THEN M1
       ELSE LET bad == class(n).prefetch /\ Fails(e, "prefetch", n)
                M2 == IF class(n).prefetch
                      THEN Emit(M1, PrefetchEv(M1, n, ~bad))
                      ELSE M1
            IN IF bad THEN Ret(M2, e.code)
               ELSE [M2 EXCEPT !.state[n] = STATE_READY, !.ret = 0,
                               !.balance[n] = IF class(n).prefetch THEN @ + 1 ELSE @]

\* node_prefetch that marks the node READY before its callback has succeeded
node_prefetch_eager(M, e, n) ==
    IF M.state[n] = STATE_READY THEN Ret(M, 0)
    ELSE LET M1 == ngli_node_init(M, e, n)
         IN IF Stop(M1) THEN M1
            ELSE LET bad == class(n).prefetch /\ Fails(e, "prefetch", n)
                     M2 == [(IF class(n).prefetch
                             THEN Emit(M1, PrefetchEv(M1, n, ~bad))
                             ELSE M1) EXCEPT !.state[n] = STATE_READY]
                 IN IF bad THEN Ret(M2, e.code)
                    ELSE [M2 EXCEPT !.ret = 0,
                                    !.balance[n] = IF class(n).prefetch THEN @ + 1 ELSE @]

node_prefetch(M, e, n) ==
    IF M.state[n] = STATE_READY THEN Ret(M, 0)
    ELSE LET M1 == ngli_node_init(M, e, n)
         IN IF Stop(M1) THEN M1
            ELSE LET bad == class(n).prefetch /\ Fails(e, "prefetch", n)
                     M2 == IF class(n).prefetch
                           THEN Emit(M1, PrefetchEv(M1, n, ~bad))
                           ELSE M1
                 IN IF bad THEN Ret(M2, e.code)
                    ELSE [M2 EXCEPT !.state[n] = STATE_READY, !.ret = 0,
                                    !.balance[n] = IF class(n).prefetch THEN @ + 1 ELSE @]

(***************************************************************************)
(* Pass A: visit.                                                          *)
(***************************************************************************)
RECURSIVE ngli_node_visit(_, _, _, _)
RECURSIVE VisitChildren(_, _, _, _)
RECURSIVE VisitChildren_on(_, _, _, _)

\* a loop that visits the remaining children after one of them failed
VisitChildren_on(M, e, n, i) ==
    IF i > Len(params(n)) THEN M
    ELSE LET M1 == ngli_node_visit(M, e, params(n)[i], n)
         IN IF M1.abort THEN M1
            ELSE VisitChildren_on([M1 EXCEPT !.ret = IF M.ret < 0 THEN M.ret ELSE @],
                                  e, n, i + 1)

\* the loop of the visit over the node-typed parameters of the class
VisitChildren(M, e, n, i) ==
    IF i > Len(params(n)) THEN Ret(M, 0)
    ELSE LET M1 == ngli_node_visit(M, e, params(n)[i], n)
         IN IF Stop(M1) THEN M1 ELSE VisitChildren(M1, e, n, i + 1)

\* A visit override: the class resolves the activity of the node itself
\* (inactive when the branch is not selected at this time) and walks on.
class_visit(M, e, n, from) ==
    LET up  == IF from # NULL THEN M.is_active[from] ELSE TRUE
        M1  == [Emit(M, Ev("visit", n, TRUE, from, up))
                   EXCEPT !.is_active[n] = up /\ n \notin e.off,
                          !.visit_time[n] = e.t]
    IN VisitChildren(M1, e, n, 1)

\* a visit that keeps a node active once an active path has reached it at t
DefaultVisit_or(M, e, n, from) ==
    LET up  == IF from # NULL THEN M.is_active[from] ELSE TRUE
        M1  == [Emit(M, Ev("visit", n, TRUE, from, up))
                   EXCEPT !.is_active[n] = up \/ (M.visit_time[n] = e.t /\ @),
                          !.visit_time[n] = e.t]
    IN VisitChildren(M1, e, n, 1)

\* a visit that forgets to stamp the time of the pass
DefaultVisit_nostamp(M, e, n, from) ==
    LET up  == IF from # NULL THEN M.is_active[from] ELSE TRUE
        M1  == [Emit(M, Ev("visit", n, TRUE, from, up)) EXCEPT !.is_active[n] = up]
    IN VisitChildren(M1, e, n, 1)

DefaultVisit(M, e, n, from) ==
    LET up  == IF from # NULL THEN M.is_active[from] ELSE TRUE
        M1  == [Emit(M, Ev("visit", n, TRUE, from, up))
                   EXCEPT !.is_active[n] = up,
                          !.visit_time[n] = e.t]
    IN VisitChildren(M1, e, n, 1)

ngli_node_visit(M, e, n, from) ==
    LET M1 == ngli_node_init(M, e, n)
    IN IF Stop(M1) THEN M1
       ELSE IF class(n).visit THEN class_visit(M1, e, n, from)
       ELSE DefaultVisit(M1, e, n, from)

(***************************************************************************)
(* Pass B: release / prefetch reconciliation.                              *)
(***************************************************************************)
RECURSIVE ngli_node_honor_release_prefetch(_, _, _)
RECURSIVE HonorChildren(_, _, _, _)

HonorChildren(M, e, n, i) ==
    IF i > Len(params(n)) THEN Ret(M, 0)
    ELSE LET M1 == ngli_node_honor_release_prefetch(M, e, params(n)[i])
         IN IF Stop(M1) THEN M1 ELSE HonorChildren(M1, e, n, i + 1)

\* a reconciliation that never releases
HonorSelf_norelease(M, e, n) ==
    IF M.is_active[n] THEN node_prefetch(M, e, n) ELSE Ret(M, 0)

\* a reconciliation that prefetches whatever it reaches
HonorSelf_always(M, e, n) == node_prefetch(M, e, n)

HonorSelf(M, e, n) ==
    IF M.is_active[n] THEN node_prefetch(M, e, n)
    ELSE LET M1 == node_release(M, n)
         IN IF M1.abort THEN M1 ELSE Ret(M1, 0)

\* a walk that settles a node before its children
HonorPreOrder(M, e, n) ==
    LET M0 == Emit(M, Ev("reconcile", n, TRUE, NULL, M.visit_time[n] = e.t))
    IN IF M.visit_time[n] # e.t THEN Ret(M0, 0)
       ELSE LET M1 == HonorSelf(M0, e, n)
            IN IF Stop(M1) THEN M1 ELSE HonorChildren(M1, e, n, 1)

\* a walk that does not look at the time of the visit
HonorAnyTime(M, e, n) ==
    LET M0 == Emit(M, Ev("reconcile", n, TRUE, NULL, TRUE))
        M1 == HonorChildren(M0, e, n, 1)
    IN IF Stop(M1) THEN M1 ELSE HonorSelf(M1, e, n)

ngli_node_honor_release_prefetch(M, e, n) ==
    LET M0 == Emit(M, Ev("reconcile", n, TRUE, NULL, M.visit_time[n] = e.t))
    IN IF M.visit_time[n] # e.t THEN Ret(M0, 0)
       ELSE LET M1 == HonorChildren(M0, e, n, 1)
            IN IF Stop(M1) THEN M1 ELSE HonorSelf(M1, e, n)

(***************************************************************************)
(* Pass C: update.                                                         *)
(***************************************************************************)
\* an update that does not look at last_update_time
ngli_node_update_nomemo(M, e, n) ==
    LET M1 == ngli_node_init(M, e, n)
    IN IF Stop(M1) THEN M1
       ELSE IF ~class(n).update THEN Ret(M1, 0)
       ELSE LET M2 == node_prefetch(M1, e, n)
            IN IF Stop(M2) THEN M2
               ELSE LET bad == Fails(e, "update", n)
                        M3  == Emit(M2, Ev("update", n, ~bad, NULL, FALSE))
                    IN IF bad THEN Ret(M3, e.code)
                       ELSE [M3 EXCEPT !.last_update_time[n] = e.t, !.ret = 0]

\* an update that relies on the reconcile pass to have prefetched the node
ngli_node_update_noprefetch(M, e, n) ==
    LET M1 == ngli_node_init(M, e, n)
    IN IF Stop(M1) THEN M1
       ELSE IF ~class(n).update THEN Ret(M1, 0)
       ELSE IF M1.last_update_time[n] = e.t
            THEN [M1 EXCEPT !.last_update_time[n] = e.t, !.ret = 0]
       ELSE LET bad == Fails(e, "update", n)
                M3  == Emit(M1, Ev("update", n, ~bad, NULL, FALSE))
            IN IF bad THEN Ret(M3, e.code)
               ELSE [M3 EXCEPT !.last_update_time[n] = e.t, !.ret = 0]

ngli_node_update(M, e, n) ==
    LET M1 == ngli_node_init(M, e, n)
    IN IF Stop(M1) THEN M1
       ELSE IF ~class(n).update THEN Ret(M1, 0)
       ELSE IF M1.last_update_time[n] = e.t
            THEN [M1 EXCEPT !.last_update_time[n] = e.t, !.ret = 0]
       ELSE LET M2 == node_prefetch(M1, e, n)
            IN IF Stop(M2) THEN M2
               ELSE LET bad == Fails(e, "update", n)
                        M3  == Emit(M2, Ev("update", n, ~bad, NULL, FALSE))
                    IN IF bad THEN Ret(M3, e.code)
                       ELSE [M3 EXCEPT !.last_update_time[n] = e.t, !.ret = 0]

(***************************************************************************)
(* Context attachment.                                                     *)
(***************************************************************************)
RECURSIVE node_set_ctx(_, _, _)
RECURSIVE node_set_children_ctx(_, _, _, _)

node_set_children_ctx(M, list, c, i) ==
    IF i > Len(list) THEN Ret(M, 0)
    ELSE LET M1 == node_set_ctx(M, list[i], c)
         IN IF Stop(M1) THEN M1 ELSE node_set_children_ctx(M1, list, c, i + 1)

\* an attachment that takes the node over from its context
SetOwnCtx_override(M, n, c) ==
    IF c # NULL
    THEN [M EXCEPT !.ctx[n] = c, !.ret = 0]
    ELSE LET M1 == node_uninit(M, n)
         IN IF M1.abort THEN M1 ELSE [M1 EXCEPT !.ctx[n] = NULL, !.ret = 0]

\* a detachment that clears the context before it uninitializes the node
SetOwnCtx_clear_first(M, n, c) ==
    IF c # NULL
    THEN IF M.ctx[n] # NULL
         THEN IF M.ctx[n] # c THEN Ret(M, -1) ELSE Ret(M, 0)
         ELSE [M EXCEPT !.ctx[n] = c, !.ret = 0]
    ELSE LET M1 == node_uninit([M EXCEPT !.ctx[n] = NULL], n)
         IN IF M1.abort THEN M1 ELSE Ret(M1, 0)

SetOwnCtx(M, n, c) ==
    IF c # NULL
    THEN IF M.ctx[n] # NULL
         THEN IF M.ctx[n] # c THEN Ret(M, -1) ELSE Ret(M, 0)
         ELSE [M EXCEPT !.ctx[n] = c, !.ret = 0]
    ELSE LET M1 == node_uninit(M, n)
         IN IF M1.abort THEN M1 ELSE [M1 EXCEPT !.ctx[n] = NULL, !.ret = 0]

\* a walk that forgets the base parameters (the state overrides)
node_set_ctx_params(M, n, c) ==
    LET M1 == SetOwnCtx(M, n, c)
    IN IF Stop(M1) THEN M1
       ELSE node_set_children_ctx(M1, params(n), c, 1)

node_set_ctx(M, n, c) ==
    LET M1 == SetOwnCtx(M, n, c)
    IN IF Stop(M1) THEN M1
       ELSE LET M2 == node_set_children_ctx(M1, params(n), c, 1)
            IN IF Stop(M2) THEN M2
               ELSE node_set_children_ctx(M2, glstates(n), c, 1)

ngli_node_attach_ctx(M, n, c) == node_set_ctx(M, n, c)

ngli_node_detach_ctx(M, n) ==
    LET M1 == node_set_ctx(M, n, NULL)
    IN IF M1.abort \/ M1.ret # 0 THEN Abort(M1) ELSE M1

(***************************************************************************)
(* Reference counting.                                                     *)
(***************************************************************************)
RECURSIVE ngl_node_unrefp(_, _)
RECURSIVE ngli_params_free(_, _, _)

\* freeing the node-typed parameters drops the reference each of them holds
ngli_params_free(M, list, i) ==
    IF i > Len(list) THEN M
    ELSE LET M1 == ngl_node_unrefp(M, list[i])
         IN IF M1.abort THEN M1 ELSE ngli_params_free(M1, list, i + 1)

\* an unref that frees the node without looking at its context
ngl_node_unrefp_nocheck(M, n) ==
    LET M1 == [M EXCEPT !.refcount[n] = @ - 1]
    IN IF M.refcount[n] # 1 THEN M1
       ELSE LET M2 == ngli_params_free(M1, glstates(n), 1)
                M3 == IF M2.abort THEN M2 ELSE ngli_params_free(M2, params(n), 1)
            IN IF M3.abort THEN M3
               ELSE [Emit(M3, Ev("free", n, TRUE, NULL, FALSE)) EXCEPT !.alive[n] = FALSE]

ngl_node_unrefp(M, n) ==
    LET M1 == [M EXCEPT !.refcount[n] = @ - 1]
    IN IF M.refcount[n] # 1 THEN M1
       ELSE IF M1.ctx[n] # NULL THEN Abort(M1)
       ELSE LET M2 == ngli_params_free(M1, glstates(n), 1)
                M3 == IF M2.abort THEN M2 ELSE ngli_params_free(M2, params(n), 1)
            IN IF M3.abort THEN M3
               ELSE [Emit(M3, Ev("free", n, TRUE, NULL, FALSE)) EXCEPT !.alive[n] = FALSE]

\* a ref that hands the node back without counting the new reference
ngl_node_ref_uncounted(M, n) == M

ngl_node_ref(M, n) == [M EXCEPT !.refcount[n] = @ + 1]

\* references held by the node-typed parameters of the live nodes
Occurrences(list, n) == Cardinality({i \in 1..Len(list) : list[i] = n})
RECURSIVE SumOver(_, _)
SumOver(S, n) ==
    IF S = {} THEN 0
    ELSE LET p == CHOOSE x \in S : TRUE
         IN Occurrences(graph.params[p], n) + Occurrences(graph.glstates[p], n)
            + SumOver(S \ {p}, n)
ParentRefs(n) == SumOver({p \in Nodes : alive[p]}, n)
UserRefs(n) == refcount[n] - ParentRefs(n)

(***************************************************************************)
(* Parameter mutation.                                                     *)
(***************************************************************************)
\* found: ngli_node_param_find found the key; r: what ngli_params_set returned
\* a parameter set that leaves the node as it is
ngl_node_param_set_keep(M, n, found, r) ==
    IF ~found THEN Ret(M, -1) ELSE Ret(M, r)

ngl_node_param_set(M, n, found, r) ==
    IF ~found THEN Ret(M, -1)
    ELSE LET M1 == node_uninit(M, n)
         IN IF M1.abort THEN M1 ELSE Ret(M1, r)

ngl_node_param_add(M, n, found, r) ==
    IF ~found THEN Ret(M, -1)
    ELSE LET M1 == node_uninit(M, n)
         IN IF M1.abort THEN M1 ELSE Ret(M1, r)

(***************************************************************************)
(* GL state scoping around the draw callback.  A struct glstate keeps, for *)
(* every field, the configured value in slot [0] and the value read from   *)
(* the driver in slot [1]; a pair <<a, b>> stands for the C array {a, b}.  *)
(***************************************************************************)
Cfg(x) == x[1]
Sav(x) == x[2]
Save(x, v) == <<x[1], v>>

glGetIntegerv(g, pname) == g[pname]
glIsEnabled(g, cap) == g.caps[cap]
glEnable(g, cap) == [g EXCEPT !.caps[cap] = 1]
glDisable(g, cap) == [g EXCEPT !.caps[cap] = 0]
glBlendFuncSeparate(g, a, b, c, d) ==
    [g EXCEPT !.blend_src_rgb = a, !.blend_dst_rgb = b,
              !.blend_src_alpha = c, !.blend_dst_alpha = d]
glBlendEquationSeparate(g, a, b) ==
    [g EXCEPT !.blend_equation_rgb = a, !.blend_equation_alpha = b]
glColorMask(g, m) == [g EXCEPT !.color_writemask = m]
glPolygonMode(g, m) == [g EXCEPT !.polygon_mode = m]
glStencilMask(g, m) == [g EXCEPT !.stencil_writemask = m]
glStencilFunc(g, f, r, m) ==
    [g EXCEPT !.stencil_func = f, !.stencil_ref = r, !.stencil_value_mask = m]
glStencilOp(g, a, b, c) ==
    [g EXCEPT !.stencil_fail = a, !.stencil_pass_depth_fail = b,
              !.stencil_pass_depth_pass = c]

\* one iteration of the loop of ngli_honor_glstates, on override stnode
HonorOne(M, stnode) ==
    LET s  == M.st[stnode]
        g  == M.gl
        id == graph.class[stnode]
        s1 == [s EXCEPT !.enabled = Save(@, glIsEnabled(g, s.capability))]
    IN CASE id = "GLBlendState" ->
              IF Cfg(s.enabled) # 0
              THEN [M EXCEPT
                      !.st[stnode] =
                          [s1 EXCEPT
                             !.src_rgb    = Save(@, glGetIntegerv(g, "blend_src_rgb")),
                             !.dst_rgb    = Save(@, glGetIntegerv(g, "blend_dst_rgb")),
                             !.src_alpha  = Save(@, glGetIntegerv(g, "blend_src_alpha")),
                             !.dst_alpha  = Save(@, glGetIntegerv(g, "blend_dst_alpha")),
                             !.mode_rgb   = Save(@, glGetIntegerv(g, "blend_equation_rgb")),
                             !.mode_alpha = Save(@, glGetIntegerv(g, "blend_equation_alpha"))],
                      !.gl = glBlendEquationSeparate(
                                glBlendFuncSeparate(glEnable(g, s.capability),
                                    Cfg(s.src_rgb), Cfg(s.dst_rgb),
                                    Cfg(s.src_alpha), Cfg(s.dst_alpha)),
                                Cfg(s.mode_rgb), Cfg(s.mode_alpha))]
              ELSE [M EXCEPT !.st[stnode] = s1, !.gl = glDisable(g, s.capability)]
         [] id = "GLColorState" ->
              [M EXCEPT !.st[stnode].rgba = Save(@, glGetIntegerv(g, "color_writemask")),
                        !.gl = glColorMask(g, Cfg(s.rgba))]
         [] id = "GLPolygonModeState" ->
              [M EXCEPT !.st[stnode].mode = Save(@, glGetIntegerv(g, "polygon_mode")),
                        !.gl = glPolygonMode(g, Cfg(s.mode))]
         [] id = "GLStencilState" ->
              IF Cfg(s.enabled) # 0
              THEN [M EXCEPT
                      !.st[stnode] =
                          [s1 EXCEPT
                             !.writemask = Save(@, glGetIntegerv(g, "stencil_writemask")),
                             !.func      = Save(@, glGetIntegerv(g, "stencil_func")),
                             !.func_ref  = Save(@, glGetIntegerv(g, "stencil_ref")),
                             !.func_mask = Save(@, glGetIntegerv(g, "stencil_value_mask")),
                             !.op_sfail  = Save(@, glGetIntegerv(g, "stencil_fail")),
                             !.op_dpfail = Save(@, glGetIntegerv(g, "stencil_pass_depth_fail")),
                             !.op_dppass = Save(@, glGetIntegerv(g, "stencil_pass_depth_pass"))],
                      !.gl = glStencilOp(
                                glStencilFunc(
                                    glStencilMask(glEnable(g, s.capability), Cfg(s.writemask)),
                                    Cfg(s.func), Cfg(s.func_ref), Cfg(s.func_mask)),
                                Cfg(s.op_sfail), Cfg(s.op_dpfail), Cfg(s.op_dppass))]
              ELSE [M EXCEPT !.st[stnode] = s1, !.gl = glDisable(g, s.capability)]
         [] OTHER ->
              [M EXCEPT !.st[stnode] = s1,
                        !.gl = IF Cfg(s1.enabled) # Sav(s1.enabled)
                               THEN IF Cfg(s1.enabled) # 0
                                    THEN glEnable(g, s.capability)
                                    ELSE glDisable(g, s.capability)
                               ELSE g]

\* one iteration of the loop of ngli_restore_glstates
RestoreOne(M, stnode) ==
    LET s  == M.st[stnode]
        g  == M.gl
        id == graph.class[stnode]
    IN CASE id = "GLBlendState" ->
              IF Sav(s.enabled) # 0
              THEN [M EXCEPT !.gl = glBlendEquationSeparate(
                                       glBlendFuncSeparate(glEnable(g, s.capability),
                                           Sav(s.src_rgb), Sav(s.dst_rgb),
                                           Sav(s.src_alpha), Sav(s.dst_alpha)),
                                       Sav(s.mode_rgb), Sav(s.mode_alpha))]
              ELSE [M EXCEPT !.gl = glDisable(g, s.capability)]
         [] id = "GLColorState" -> [M EXCEPT !.gl = glColorMask(g, Sav(s.rgba))]
         [] id = "GLPolygonModeState" -> [M EXCEPT !.gl = glPolygonMode(g, Sav(s.mode))]
         [] id = "GLStencilState" ->
              IF Sav(s.enabled) # 0
              THEN [M EXCEPT !.gl = glStencilOp(
                                       glStencilFunc(
                                           glStencilMask(glEnable(g, s.capability),
                                                         Sav(s.writemask)),
                                           Sav(s.func), Sav(s.func_ref), Sav(s.func_mask)),
                                       Sav(s.op_sfail), Sav(s.op_dpfail), Sav(s.op_dppass))]
              ELSE [M EXCEPT !.gl = glDisable(g, s.capability)]
         [] OTHER ->
              IF Cfg(s.enabled) # Sav(s.enabled)
              THEN IF Sav(s.enabled) # 0
                   THEN [M EXCEPT !.gl = glEnable(g, s.capability)]
                   ELSE [M EXCEPT !.gl = glDisable(g, s.capability)]
              ELSE M

RECURSIVE HonorFrom(_, _, _, _)
HonorFrom(M, node, L, i) ==
    IF i > Len(L) THEN M
    ELSE HonorFrom(Emit(HonorOne(M, L[i]), Ev("honor", L[i], TRUE, node, FALSE)),
                   node, L, i + 1)

ngli_honor_glstates(M, node) == HonorFrom(M, node, glstates(node), 1)

RECURSIVE RestoreFrom(_, _, _, _)
RestoreFrom(M, node, L, i) ==
    IF i > Len(L) THEN M
    ELSE RestoreFrom(Emit(RestoreOne(M, L[i]), Ev("restore", L[i], TRUE, node, FALSE)),
                     node, L, i + 1)

\* a restoration that unwinds the overrides from the last to the first
ngli_restore_glstates_reverse(M, node) ==
    RestoreFrom(M, node,
                [i \in 1..Len(glstates(node)) |-> glstates(node)[Len(glstates(node)) + 1 - i]],
                1)

ngli_restore_glstates(M, node) == RestoreFrom(M, node, glstates(node), 1)

RECURSIVE ngli_node_draw(_, _)
RECURSIVE DrawChildren(_, _, _)
DrawChildren(M, L, i) ==
    IF i > Len(L) THEN M
    ELSE DrawChildren(ngli_node_draw(M, L[i]), L, i + 1)

\* the draw callback: a container draws its children, any other class
\* renders with the driver state it finds
class_draw(M, node) ==
    LET M1 == Emit(M, [Ev("draw", node, TRUE, NULL, FALSE) EXCEPT !.seen = M.gl])
    IN IF graph.class[node] = "Group" THEN DrawChildren(M1, params(node), 1) ELSE M1

ngli_node_draw(M, node) ==
    IF M.abort \/ ~class(node).draw THEN M
    ELSE IF M.ctx[node] = NULL THEN Abort(M)
    ELSE ngli_restore_glstates(class_draw(ngli_honor_glstates(M, node), node), node)

(***************************************************************************)
(* Operations.                                                             *)
(***************************************************************************)
Op(name, n, arg, t, M) ==
    [op |-> name, node |-> n, arg |-> arg, t |-> t, ret |-> M.ret]

\* the operation returned: its effects become the program state
\* history, for the nodes of a class with an uninit callback: whether a
\* successful class init call of the node is outstanding (1: no class uninit
\* call has followed it) and whether class init was called again meanwhile
\* (2 and more), after the callbacks of the log l
CountInits(cnt, l) ==
    [n \in DOMAIN cnt |->
        LET U     == {i \in 1..Len(l) : l[i].cb = "uninit" /\ l[i].node = n}
            u     == IF U = {} THEN 0 ELSE CHOOSE i \in U : \A j \in U : j <= i
            base  == IF u = 0 THEN cnt[n] ELSE 0
            I     == {i \in (u + 1)..Len(l) : l[i].cb = "init" /\ l[i].node = n}
            Ok    == {i \in I : l[i].ok}
            first == IF base >= 1 THEN u
                     ELSE IF Ok = {} THEN Len(l) + 1
                     ELSE CHOOSE i \in Ok : \A j \in Ok : i <= j
            total == base + Cardinality({i \in I : i >= first})
        IN IF ~class(n).uninit THEN cnt[n]
           ELSE IF total < MaxInits THEN total ELSE MaxInits]

CommitMem(M, op) ==
    /\ aborted' = M.abort
    /\ lastOp' = op
    /\ log' = M.log
    /\ IF M.abort
       THEN UNCHANGED <<alive, refcount, ctx, state, is_active, visit_time,
                        last_update_time, balance, gl, st, priv_data, inits>>
       ELSE /\ alive' = M.alive
            /\ refcount' = M.refcount
            /\ ctx' = M.ctx
            /\ state' = M.state
            /\ is_active' = M.is_active
            /\ visit_time' = M.visit_time
            /\ last_update_time' = M.last_update_time
            /\ balance' = M.balance
            /\ gl' = M.gl
            /\ st' = M.st
            /\ priv_data' = M.priv_data
            /\ inits' = CountInits(inits, M.log)
    /\ UNCHANGED <<graph, layout>>

Commit(M, op) == CommitMem(M, op) /\ UNCHANGED <<walk, calc>>

Live == {n \in Nodes : alive[n]}
\* the class callbacks that can fail in an operation (a NULL callback cannot)
CanFail(cbs, S) == {NoFail} \cup {f \in cbs \X S : class(f[2])[f[1]]}
VisitFailures == CanFail({"init"}, Nodes)
ReconcileFailures == CanFail({"init", "prefetch"}, Nodes)
UpdateFailures(n) ==
    CanFail({"init", "prefetch", "update"}, {n})
        \cup CanFail({"init"}, {glstates(n)[i] : i \in 1..Len(glstates(n))})
Env(t, fail, code, off) == [t |-> t, fail |-> fail, code |-> code, off |-> off]
Overrides == {n \in Nodes : class(n).visit}

Visit(n, from, t, fail, code, off) ==
    /\ ~aborted
    /\ n \in Live /\ from \in Live \cup {NULL} /\ from # n
    /\ LET M == ngli_node_visit(Mem, Env(t, fail, code, off), n, from)
       IN Commit(M, Op("visit", n, from, t, M))

Reconcile(n, t, fail, code) ==
    /\ ~aborted
    /\ n \in Live
    /\ LET M == ngli_node_honor_release_prefetch(Mem, Env(t, fail, code, {}), n)
       IN Commit(M, Op("reconcile", n, NULL, t, M))

Update(n, t, fail, code) ==
    /\ ~aborted
    /\ n \in Live
    /\ LET M == ngli_node_update(Mem, Env(t, fail, code, {}), n)
       IN Commit(M, Op("update", n, NULL, t, M))

\* the class init callbacks an initialisation of the node can invoke
InitFailures(n) ==
    CanFail({"init"}, {n} \cup {glstates(n)[i] : i \in 1..Len(glstates(n))})

NodeInit(n, fail, code) ==
    /\ ~aborted
    /\ n \in Live
    /\ LET M == ngli_node_init(Mem, Env(0, fail, code, {}), n)
       IN Commit(M, Op("init", n, NULL, Never, M))

\* history: the timestamp of the last update of the node, while it succeeded
TrackUpdated ==
    updated' = IF lastOp'.op # "update" \/ aborted' THEN updated
               ELSE [updated EXCEPT ![lastOp'.node] =
                        IF lastOp'.ret = 0 THEN lastOp'.t
                        ELSE IF @ = lastOp'.t THEN @ ELSE Never]

ParamSet(n, found, r) ==
    /\ ~aborted
    /\ n \in Live
    /\ LET M == ngl_node_param_set(Mem, n, found, r)
       IN Commit(M, Op("param_set", n, IF found THEN 1 ELSE 0, Never, M))

ParamAdd(n, found, r) ==
    /\ ~aborted
    /\ n \in Live
    /\ LET M == ngl_node_param_add(Mem, n, found, r)
       IN Commit(M, Op("param_add", n, IF found THEN 1 ELSE 0, Never, M))

Attach(n, c) ==
    /\ ~aborted
    /\ n \in Live
    /\ LET M == ngli_node_attach_ctx(Mem, n, c)
       IN Commit(M, Op("attach", n, c, Never, M))

Detach(n) ==
    /\ ~aborted
    /\ n \in Live
    /\ LET M == ngli_node_detach_ctx(Mem, n)
       IN Commit(M, Op("detach", n, NULL, Never, M))

Ref(n) ==
    /\ ~aborted
    /\ n \in Live
    /\ UserRefs(n) < MaxRef
    /\ LET M == ngl_node_ref(Mem, n)
       IN Commit(M, Op("ref", n, NULL, Never, M))

Unref(n) ==
    /\ ~aborted
    /\ n \in Live
    /\ UserRefs(n) >= 1
    /\ LET M == ngl_node_unrefp(Mem, n)
       IN Commit(M, Op("unref", n, NULL, Never, M))

Draw(n) ==
    /\ ~aborted
    /\ alive[n]
    /\ LET M == ngli_node_draw(Mem, n)
       IN Commit(M, Op("draw", n, NULL, Never, M))

\* the type identifiers that get_node_class maps to a class
RegisteredTypes == {"Full", "Render", "Uniform", "UniformQuat", "Filter", "Group"}
                       \cup GLStateIds
NoClass == "none"
get_node_class(type) == IF type \in RegisteredTypes THEN type ELSE NoClass

\* a zero-allocated node on which only the reference count is forgotten
node_create_zero(cls) ==
    [class |-> cls, refcount |-> 0, state |-> STATE_UNINITIALIZED, ctx |-> NULL,
     is_active |-> FALSE, visit_time |-> InitTime, last_update_time |-> InitTime]

\* the fields of a node as node_create leaves them
node_create(cls) ==
    [class |-> cls, refcount |-> 1, state |-> STATE_UNINITIALIZED, ctx |-> NULL,
     is_active |-> FALSE, visit_time |-> InitTime, last_update_time |-> InitTime]

\* ngl_node_create in the free slot n; the new node has no child yet
Create(n, type) ==
    /\ ~aborted
    /\ ~alive[n]
    /\ IF get_node_class(type) = NoClass
       THEN /\ UNCHANGED <<graph, alive, refcount, ctx, state, is_active, visit_time,
                           last_update_time, balance, st, priv_data, inits>>
            /\ lastOp' = [op |-> "create", node |-> NULL, arg |-> NULL,
                          t |-> Never, ret |-> -1]
       ELSE LET node == node_create(get_node_class(type))
            IN /\ graph' = [graph EXCEPT !.class[n] = node.class,
                                         !.params[n] = <<>>, !.glstates[n] = <<>>]
               /\ alive' = [alive EXCEPT ![n] = TRUE]
               /\ refcount' = [refcount EXCEPT ![n] = node.refcount]
               /\ ctx' = [ctx EXCEPT ![n] = node.ctx]
               /\ state' = [state EXCEPT ![n] = node.state]
               /\ is_active' = [is_active EXCEPT ![n] = node.is_active]
               /\ visit_time' = [visit_time EXCEPT ![n] = node.visit_time]
               /\ last_update_time' =
                      [last_update_time EXCEPT ![n] = node.last_update_time]
               /\ balance' = [balance EXCEPT ![n] = 0]
               /\ st' = [st EXCEPT ![n] = GLStateOf(node.class, 0, 0)]
               /\ priv_data' = [priv_data EXCEPT ![n] = Defaults(layout[n])]
               /\ inits' = [inits EXCEPT ![n] = 0]
               /\ lastOp' = [op |-> "create", node |-> n, arg |-> NULL,
                             t |-> Never, ret |-> 0]
    /\ log' = <<>>
    /\ UNCHANGED <<aborted, gl, layout, walk, calc>>

(***************************************************************************)
(* The state after the application has built a scene of G: every node      *)
(* created (node_create) and set as parameter of its parents, which hold a *)
(* reference each; c is the context the scene is attached to (or NULL).    *)
(***************************************************************************)
InitNodes(G, c) ==
    /\ graph \in G
    /\ alive = [n \in graph.nodes |-> TRUE]
    /\ refcount = [n \in graph.nodes |->
                     1 + Cardinality({<<p, i>> \in graph.nodes \X (1..2) :
                                        i <= Len(graph.params[p]) /\ graph.params[p][i] = n})
                       + Cardinality({<<p, i>> \in graph.nodes \X (1..2) :
                                        i <= Len(graph.glstates[p]) /\ graph.glstates[p][i] = n})]
    /\ ctx = [n \in graph.nodes |-> c]
    /\ state = [n \in graph.nodes |-> STATE_UNINITIALIZED]
    /\ is_active = [n \in graph.nodes |-> FALSE]
    /\ visit_time = [n \in graph.nodes |-> InitTime]
    /\ last_update_time = [n \in graph.nodes |-> InitTime]
    /\ balance = [n \in graph.nodes |-> 0]
    /\ updated = [n \in graph.nodes |-> Never]
    /\ log = <<>>
    /\ lastOp = [op |-> "create", node |-> NULL, arg |-> NULL, t |-> Never, ret |-> 0]
    /\ aborted = FALSE
    /\ gl = DriverState(0, 1)
    /\ st = [n \in graph.nodes |-> GLStateOf(graph.class[n], 1, 1)]
    /\ layout = [n \in graph.nodes |-> NoPriv]
    /\ priv_data = [n \in graph.nodes |-> Defaults(layout[n])]
    /\ inits = [n \in graph.nodes |-> 0]

\* no walk in progress, no function applied
NoWalk == [kind |-> "none", stack |-> <<>>]
NoCalc == [op |-> "none"]

InitOn(G, c) == InitNodes(G, c) /\ walk = NoWalk /\ calc = NoCalc

(***************************************************************************)
(* Spec: the frame engine on an attached scene: the two walks from the     *)
(* root at any time, updates of any node at the time of the frame and      *)
(* parameter changes of any node, in any order.                            *)
(***************************************************************************)
Init == InitOn(Graphs, 1)

\* the frame being drawn: the time of the last visit of the root
FrameTime == IF visit_time[1] \in Times THEN visit_time[1] ELSE 0

Next ==
    /\ \/ \E t \in Times, fail \in VisitFailures, code \in ErrCodes,
             off \in SUBSET Overrides :
             Visit(1, NULL, t, fail, code, off)
       \/ \E fail \in ReconcileFailures, code \in ErrCodes :
             Reconcile(1, FrameTime, fail, code)
       \/ \E n \in Nodes, code \in ErrCodes :
             \E fail \in UpdateFailures(n) : Update(n, FrameTime, fail, code)
       \/ \E n \in Nodes, r \in ErrCodes \cup {0} : ParamSet(n, TRUE, r)
    /\ UNCHANGED updated

Spec == Init /\ [][Next]_vars

(***************************************************************************)
(* SpecNode: the state machine of one node: initialisation of any node,    *)
(* the two walks of a frame from the root and parameter changes.           *)
(***************************************************************************)
NextNode ==
    /\ \/ \E n \in Nodes, code \in ErrCodes :
             \E fail \in InitFailures(n) : NodeInit(n, fail, code)
       \/ \E t \in Times, fail \in VisitFailures, code \in ErrCodes,
             off \in SUBSET Overrides :
             Visit(1, NULL, t, fail, code, off)
       \/ \E fail \in ReconcileFailures, code \in ErrCodes :
             Reconcile(1, FrameTime, fail, code)
       \/ \E n \in Nodes, r \in ErrCodes \cup {0} : ParamSet(n, TRUE, r)
    /\ UNCHANGED updated

SpecNode == Init /\ [][NextNode]_vars

(***************************************************************************)
(* SpecReset: one attached node of a class with every callback, over the   *)
(* private data layouts a class can declare: initialisation (which can     *)
(* fail), the walks that make it READY, and parameter changes.             *)
(***************************************************************************)
Single ==
    [nodes    |-> {1},
     params   |-> (1 :> <<>>),
     glstates |-> (1 :> <<>>),
     class    |-> (1 :> "Full")]

InitReset ==
    /\ graph = Single
    /\ alive = [n \in graph.nodes |-> TRUE]
    /\ refcount = [n \in graph.nodes |-> 1]
    /\ ctx = [n \in graph.nodes |-> 1]
    /\ state = [n \in graph.nodes |-> STATE_UNINITIALIZED]
    /\ is_active = [n \in graph.nodes |-> FALSE]
    /\ visit_time = [n \in graph.nodes |-> InitTime]
    /\ last_update_time = [n \in graph.nodes |-> InitTime]
    /\ balance = [n \in graph.nodes |-> 0]
    /\ updated = [n \in graph.nodes |-> Never]
    /\ log = <<>>
    /\ lastOp = [op |-> "create", node |-> NULL, arg |-> NULL, t |-> Never, ret |-> 0]
    /\ aborted = FALSE
    /\ gl = DriverState(0, 1)
    /\ st = [n \in graph.nodes |-> GLStateOf(graph.class[n], 1, 1)]
    /\ layout \in [graph.nodes -> Layouts]
    /\ priv_data = [n \in graph.nodes |-> Defaults(layout[n])]
    /\ inits = [n \in graph.nodes |-> 0]
    /\ walk = NoWalk /\ calc = NoCalc

NextReset ==
    /\ \/ \E code \in ErrCodes, fail \in InitFailures(1) : NodeInit(1, fail, code)
       \/ Visit(1, NULL, 0, NoFail, -1, {})
       \/ Reconcile(1, 0, NoFail, -1)
       \/ \E found \in BOOLEAN, r \in ErrCodes \cup {0} : ParamSet(1, found, r)
       \/ \E found \in BOOLEAN, r \in ErrCodes \cup {0} : ParamAdd(1, found, r)
    /\ UNCHANGED updated

SpecReset == InitReset /\ [][NextReset]_vars

(***************************************************************************)
(* SpecInit: initialisation of nodes that carry state overrides, with the  *)
(* walks of a frame and parameter changes of any node.                     *)
(***************************************************************************)
SpecInit == InitOn(InitGraphs, 1) /\ [][NextNode]_vars

(***************************************************************************)
(* SpecUpdate: updates interleaved with whatever uninitializes a node, on  *)
(* one rendering context.                                                  *)
(***************************************************************************)
NextUpdate ==
    /\ \/ \E n \in Nodes, t \in Times, code \in ErrCodes :
             \E fail \in UpdateFailures(n) : Update(n, t, fail, code)
       \/ \E n \in Nodes, found \in BOOLEAN, r \in ErrCodes \cup {0} : ParamSet(n, found, r)
       \/ \E n \in Nodes, found \in BOOLEAN, r \in ErrCodes \cup {0} : ParamAdd(n, found, r)
       \/ \E n \in Nodes : Attach(n, 1)
       \/ \E n \in Nodes : Detach(n)
    /\ TrackUpdated

SpecUpdate == InitOn(UpdateGraphs, 1) /\ [][NextUpdate]_vars

(***************************************************************************)
(* SpecFirst: updates at any timestamp a double can hold, the value        *)
(* node_create stores in last_update_time included.                        *)
(***************************************************************************)
AnyTimes == Times \cup {InitTime}
FirstGraphs == {Pair("Full", "Render"), Pair("UniformQuat", "Uniform")}

NextFirst ==
    /\ \/ \E n \in Nodes, t \in AnyTimes, code \in ErrCodes :
             \E fail \in UpdateFailures(n) : Update(n, t, fail, code)
       \/ \E n \in Nodes : ParamSet(n, TRUE, 0)
    /\ TrackUpdated

SpecFirst == InitOn(FirstGraphs, 1) /\ [][NextFirst]_vars

(***************************************************************************)
(* The two walks of a frame, one C statement group at a time.  A frame of  *)
(* the call stack is a call of ngli_node_visit or of                       *)
(* ngli_node_honor_release_prefetch: its node, the node it was called      *)
(* from, and i, its position: 0 before the function body, k >= 1 in the    *)
(* loop over the node-typed parameters with the k-th one next.  walk.ret   *)
(* is the value returned by the call that returned last.                   *)
(***************************************************************************)
Frame(n, from) == [node |-> n, from |-> from, i |-> 0]
Top(w) == w.stack[Len(w.stack)]
Pop(w, r) == [w EXCEPT !.stack = SubSeq(@, 1, Len(@) - 1), !.ret = r]
Advance(w) == [w EXCEPT !.stack[Len(w.stack)].i = @ + 1]
Push(w, n) == [Advance(w) EXCEPT !.stack = Append(@, Frame(n, Top(w).node))]

\* a caller that goes on after the call it made returned an error
ChildFailed_never(w) == FALSE

\* if (ret < 0) return ret;
ChildFailed(w) == w.ret < 0

\* ngli_node_visit down to its loop: init, then the class visit or the
\* activity and the time stamp of the default visit
VisitEnter(M, e, n, from) ==
    LET M1 == ngli_node_init(M, e, n)
        up == IF from # NULL THEN M1.is_active[from] ELSE TRUE
    IN IF Stop(M1) THEN M1
       ELSE [Emit(M1, Ev("visit", n, TRUE, from, up))
                EXCEPT !.is_active[n] = IF class(n).visit THEN up /\ n \notin e.off ELSE up,
                       !.visit_time[n] = e.t]

\* one step of the call on top of the stack; the result is <<memory, walk>>
VisitStep(M, w) ==
    LET f == Top(w)
    IN IF ChildFailed(w) THEN <<M, Pop(w, w.ret)>>
       ELSE IF f.i = 0
            THEN LET M1 == VisitEnter(M, w.e, f.node, f.from)
                 IN IF Stop(M1) THEN <<M1, Pop(w, M1.ret)>> ELSE <<M1, Advance(w)>>
       ELSE IF f.i <= Len(params(f.node)) THEN <<M, Push(w, params(f.node)[f.i])>>
       ELSE <<M, Pop(w, 0)>>

HonorStep(M, w) ==
    LET f == Top(w)
    IN IF ChildFailed(w) THEN <<M, Pop(w, w.ret)>>
       ELSE IF f.i = 0
            THEN LET M0 == Emit(M, Ev("reconcile", f.node, TRUE, NULL,
                                      M.visit_time[f.node] = w.e.t))
                 IN IF M.visit_time[f.node] # w.e.t
                    THEN <<M0, Pop(w, 0)>> ELSE <<M0, Advance(w)>>
       ELSE IF f.i <= Len(params(f.node)) THEN <<M, Push(w, params(f.node)[f.i])>>
       ELSE LET M1 == HonorSelf(M, w.e, f.node)
            IN <<M1, Pop(w, M1.ret)>>

\* the application calls a walk on the root of the scene
WalkStart(kind, root, t, fail, code, off) ==
    /\ ~aborted /\ walk.stack = <<>> /\ root \in Live
    /\ walk' = [kind |-> kind, stack |-> <<Frame(root, NULL)>>, root |-> root,
                e |-> Env(t, fail, code, off), ret |-> 0, start |-> Mem]
    /\ UNCHANGED <<graph, alive, refcount, ctx, state, is_active, visit_time,
                   last_update_time, balance, updated, log, lastOp, aborted, gl,
                   st, layout, priv_data, inits, calc>>

WalkStep ==
    /\ ~aborted /\ walk.stack # <<>>
    /\ LET r == IF walk.kind = "visit" THEN VisitStep(Mem, walk) ELSE HonorStep(Mem, walk)
       IN /\ CommitMem(r[1], Op(walk.kind, Top(walk).node, Top(walk).from, walk.e.t, r[1]))
          /\ walk' = IF r[1].abort THEN [walk EXCEPT !.stack = <<>>] ELSE r[2]
    /\ UNCHANGED <<updated, calc>>

WalkGraphs == {Kite, Triangle}

NextWalk ==
    \/ \E t \in Times, fail \in CanFail({"init"}, Nodes), code \in ErrCodes :
          WalkStart("visit", 1, t, fail, code, Overrides)
    \/ \E t \in Times, fail \in CanFail({"prefetch"}, Nodes), code \in ErrCodes :
          WalkStart("reconcile", 1, t, fail, code, {})
    \/ WalkStep

SpecWalk == InitOn(WalkGraphs, 1) /\ [][NextWalk]_vars

(***************************************************************************)
(* Uniform nodes (node_uniform.c).  calc is the struct variable_priv of    *)
(* one initialized node: the options val, live_min, live_max (one entry    *)
(* per component) and live_id (id: whether it is set), the transform       *)
(* option (whether it is set), and data, the value exposed to the shader.  *)
(* req is the value the application asked for in the last live change and  *)
(* ret what its update function returned.  A matrix is a number.           *)
(***************************************************************************)
NGL_ERROR_INVALID_USAGE == -2
NGL_ERROR_UNSUPPORTED   == -3
NGL_ERROR_MEMORY        == -4

IntVals  == (0 - MaxVal)..MaxVal
UIntVals == 0..(MaxVal + 1)
MatVals  == 0..MaxVal

IntTypes == {"int", "ivec2", "uint"}
\* DECLARE_UPDATE_FUNCS(type, .., n)
NbComponents(type) == IF type = "ivec2" THEN 2 ELSE 1
ValuesOf(type) ==
    [1..NbComponents(type) ->
        CASE type = "uint" -> UIntVals
          [] type = "mat4" -> MatVals
          [] OTHER         -> IntVals]

\* a clamp to live_max alone
live_boundaries_clamp_max(s) ==
    IF ~s.id THEN s
    ELSE [s EXCEPT !.val = [i \in DOMAIN s.val |->
                               IF s.val[i] > s.max[i] THEN s.max[i] ELSE s.val[i]]]

live_boundaries_clamp(s) ==
    IF ~s.id THEN s
    ELSE [s EXCEPT !.val =
             [i \in DOMAIN s.val |->
                 LET v == IF s.val[i] < s.min[i] THEN s.min[i] ELSE s.val[i]
                 IN IF v > s.max[i] THEN s.max[i] ELSE v]]

\* uniform<type>_update_func of the integer classes
uniformint_update_func(s) ==
    LET s1 == live_boundaries_clamp(s)
    IN [s1 EXCEPT !.data = s1.val, !.ret = 0]

\* an update function that copies the matrix whatever the node holds
uniformmat4_update_func_copy(s) == [s EXCEPT !.data = s.val, !.ret = 0]

uniformmat4_update_func(s) ==
    IF s.transform THEN [s EXCEPT !.ret = NGL_ERROR_INVALID_USAGE]
    ELSE [s EXCEPT !.data = s.val, !.ret = 0]

\* uniform<type>_init: data is the copy of the value option
UniformNodes ==
    UNION {{[op |-> "init", type |-> type, id |-> i, transform |-> FALSE,
             val |-> v, min |-> lo, max |-> hi, data |-> v, req |-> v, ret |-> 0] :
               i \in BOOLEAN, v \in ValuesOf(type),
               lo \in ValuesOf(type), hi \in ValuesOf(type)} : type \in IntTypes}
    \cup {[op |-> "init", type |-> "mat4", id |-> i, transform |-> tr,
           val |-> v, min |-> <<0>>, max |-> <<0>>, data |-> v, req |-> v, ret |-> 0] :
             i \in BOOLEAN, tr \in BOOLEAN, v \in ValuesOf("mat4")}
InitUniform ==
    /\ InitNodes({Single}, 1) /\ walk = NoWalk
    /\ calc \in UniformNodes

\* a live change: the parameter "value" is stored, then its update function
\* is called
LiveChange(new) ==
    /\ calc.type \in IntTypes /\ new \in ValuesOf(calc.type)
    /\ calc' = uniformint_update_func([calc EXCEPT !.op = "live", !.val = new, !.req = new])
    /\ UNCHANGED <<graph, alive, refcount, ctx, state, is_active, visit_time,
                   last_update_time, balance, updated, log, lastOp, aborted, gl,
                   st, layout, priv_data, inits, walk>>

LiveChangeMat4(new) ==
    /\ calc.type = "mat4" /\ new \in ValuesOf(calc.type)
    /\ calc' = uniformmat4_update_func([calc EXCEPT !.op = "live", !.val = new, !.req = new])
    /\ UNCHANGED <<graph, alive, refcount, ctx, state, is_active, visit_time,
                   last_update_time, balance, updated, log, lastOp, aborted, gl,
                   st, layout, priv_data, inits, walk>>

NextUniform ==
    \/ \E new \in ValuesOf("int") \cup ValuesOf("ivec2") \cup ValuesOf("uint") : LiveChange(new)
    \/ \E new \in ValuesOf("mat4") : LiveChangeMat4(new)

SpecUniform == InitUniform /\ [][NextUniform]_vars

(***************************************************************************)
(* Render nodes (node_renderother.c).  calc is what the init callback of   *)
(* RenderColor, RenderGradient, RenderGradient4 and RenderTexture reads:   *)
(* whether the geometry option is set, whether the geometry has a UV       *)
(* buffer, the types of its vertices and UV layouts, and what the calls    *)
(* into the GPU layer return (buffer creation, buffer init and upload,     *)
(* combine_filters_code).                                                  *)
(***************************************************************************)
LayoutTypes == {"NGLI_TYPE_VEC2", "NGLI_TYPE_VEC3", "NGLI_TYPE_VEC4"}
Geometries ==
    [op : {"none"}, geometry : BOOLEAN, uvcoords : BOOLEAN,
     vertices_type : LayoutTypes, uvcoords_type : LayoutTypes \ {"NGLI_TYPE_VEC4"},
     created : BOOLEAN, uploaded : {0, -1}, combined : {0, NGL_ERROR_MEMORY}]

\* an init that looks at the vertices before it looks for the UV buffer
init_vertices_first(s) ==
    IF ~s.geometry
    THEN IF ~s.created THEN NGL_ERROR_MEMORY
         ELSE IF s.uploaded < 0 THEN s.uploaded
         ELSE s.combined
    ELSE IF s.vertices_type # "NGLI_TYPE_VEC3" THEN NGL_ERROR_UNSUPPORTED
    ELSE IF ~s.uvcoords THEN NGL_ERROR_INVALID_USAGE
    ELSE IF s.uvcoords /\ s.uvcoords_type # "NGLI_TYPE_VEC2" THEN NGL_ERROR_UNSUPPORTED
    ELSE s.combined

init(s) ==
    IF ~s.geometry
    THEN IF ~s.created THEN NGL_ERROR_MEMORY
         ELSE IF s.uploaded < 0 THEN s.uploaded
         ELSE s.combined
    ELSE IF ~s.uvcoords THEN NGL_ERROR_INVALID_USAGE
    ELSE IF s.vertices_type # "NGLI_TYPE_VEC3" THEN NGL_ERROR_UNSUPPORTED
    ELSE IF s.uvcoords /\ s.uvcoords_type # "NGLI_TYPE_VEC2" THEN NGL_ERROR_UNSUPPORTED
    ELSE s.combined

OneRender == [Single EXCEPT !.class = (1 :> "Render")]
InitRender ==
    /\ InitNodes({OneRender}, 1) /\ walk = NoWalk
    /\ calc \in Geometries

\* ngli_node_init of the render node: its class init callback is init
RenderInit ==
    /\ ~aborted
    /\ LET r == init(calc)
           M == ngli_node_init(Mem, Env(0, IF r < 0 THEN <<"init", 1>> ELSE NoFail, r, {}), 1)
       IN CommitMem(M, Op("init", 1, NULL, Never, M))
    /\ calc' = [calc EXCEPT !.op = "init"]
    /\ UNCHANGED <<updated, walk>>

\* the application sets another geometry (or none)
SetGeometry(g) ==
    /\ ~aborted
    /\ LET M == ngl_node_param_set(Mem, 1, TRUE, 0)
       IN CommitMem(M, Op("param_set", 1, 1, Never, M))
    /\ calc' = g
    /\ UNCHANGED <<updated, walk>>

NextRender ==
    \/ RenderInit
    \/ \E g \in Geometries : SetGeometry(g)

SpecRender == InitRender /\ [][NextRender]_vars

(***************************************************************************)
(* The layout of a node allocation (nodes.c, node_create): the header of   *)
(* v bytes, then the private data at offset ALIGN(v, a).  Sizes are words  *)
(* of WordBits bits.                                                       *)
(***************************************************************************)
WordBits    == 10
MaxSize     == 40
MaxAlignLog == 5
Word == 2 ^ WordBits

RECURSIVE BitAnd(_, _)
BitAnd(x, y) ==
    IF x = 0 \/ y = 0 THEN 0
    ELSE (x % 2) * (y % 2) + 2 * BitAnd(x \div 2, y \div 2)
BitNot(x) == Word - 1 - x

ALIGN(v, a) == (v + BitAnd((v + a - 1) % Word, BitNot((v - 1) % Word))) % Word

Alignments == {2 ^ k : k \in 0..MaxAlignLog}
\* sizeof(*node), NGLI_ALIGN, and the address posix_memalign returns
Allocations ==
    {s \in [op : {"none"}, size : 1..MaxSize, align : Alignments, ptr : 0..(2 * 2 ^ MaxAlignLog)] :
        s.ptr > 0 /\ s.ptr % s.align = 0}

InitAlign ==
    /\ InitNodes({Single}, 1) /\ walk = NoWalk
    /\ calc \in Allocations

\* node_create up to its alignment assertions
AlignedCreate ==
    /\ ~aborted
    /\ calc.op = "none"
    /\ LET node_size == ALIGN(calc.size, calc.align)
           data == (calc.ptr + node_size) % Word
           nodeok == BitAnd(calc.ptr, BitNot(calc.align - 1)) = calc.ptr
           dataok == BitAnd(data, BitNot(calc.align - 1)) = data
       IN /\ calc' = [op |-> "create", size |-> calc.size, align |-> calc.align,
                      ptr |-> calc.ptr, node_size |-> node_size, data |-> data]
          /\ aborted' = ~(nodeok /\ dataok)
    /\ UNCHANGED <<graph, alive, refcount, ctx, state, is_active, visit_time,
                   last_update_time, balance, updated, log, lastOp, gl,
                   st, layout, priv_data, inits, walk>>

NextAlign == AlignedCreate

SpecAlign == InitAlign /\ [][NextAlign]_vars

(***************************************************************************)
(* SpecPass: the two walks of a frame from the root of an attached scene   *)
(* with shared sub-trees.                                                  *)
(***************************************************************************)
NextPass ==
    /\ \/ \E t \in Times, fail \in VisitFailures, code \in ErrCodes,
             off \in SUBSET Overrides :
             Visit(1, NULL, t, fail, code, off)
       \/ \E t \in Times, fail \in ReconcileFailures, code \in ErrCodes :
             Reconcile(1, t, fail, code)
    /\ UNCHANGED updated

SpecPass == InitOn(SharedGraphs, 1) /\ [][NextPass]_vars

(***************************************************************************)
(* SpecCtx: the public operations on a scene that is built but not         *)
(* attached yet, with parents that share a child: attach, detach, unref,   *)
(* the two walks from the first root and a parameter change of the shared  *)
(* child; the second context is offered to one parent only.                *)
(***************************************************************************)
NextCtx ==
    /\ \/ \E n \in Nodes : Attach(n, 1)
       \/ Attach(2, 2)
       \/ \E n \in Nodes : Detach(n)
       \/ \E n \in {1, 3} : Unref(n)
       \/ Visit(1, NULL, 0, NoFail, -1, {})
       \/ Reconcile(1, 0, NoFail, -1)
       \/ ParamSet(3, TRUE, 0)
    /\ UNCHANGED updated

SpecCtx == InitOn(CtxGraphs, NULL) /\ [][NextCtx]_vars

(***************************************************************************)
(* SpecLife: attachment and reference counting of a scene that is built    *)
(* but not attached yet; the walks run at the first frame only.            *)
(***************************************************************************)
NextLife ==
    /\ \/ \E n \in Nodes, c \in Contexts : Attach(n, c)
       \/ \E n \in Nodes : Detach(n)
       \/ \E n \in Nodes : Ref(n)
       \/ \E n \in Nodes : Unref(n)
       \/ \E n \in Nodes, off \in SUBSET Overrides : Visit(n, NULL, 0, NoFail, -1, off)
       \/ \E n \in Nodes : Reconcile(n, 0, NoFail, -1)
       \/ \E n \in Nodes, type \in {"Render", "Full", "Unknown"} : Create(n, type)
    /\ UNCHANGED updated

SpecLife == InitOn(LifeGraphs, NULL) /\ [][NextLife]_vars

(***************************************************************************)
(* SpecDraw: draws of a scene that is attached and READY (its nodes were   *)
(* visited, reconciled and updated at frame 0); the overrides and the      *)
(* driver start from any of the configurations below.                      *)
(***************************************************************************)
InitDraw ==
    /\ graph \in DrawGraphs
    /\ alive = [n \in graph.nodes |-> TRUE]
    /\ refcount = [n \in graph.nodes |->
                     1 + Cardinality({<<p, i>> \in graph.nodes \X (1..2) :
                                        i <= Len(graph.params[p]) /\ graph.params[p][i] = n})
                       + Cardinality({<<p, i>> \in graph.nodes \X (1..2) :
                                        i <= Len(graph.glstates[p]) /\ graph.glstates[p][i] = n})]
    /\ ctx = [n \in graph.nodes |-> 1]
    /\ state = [n \in graph.nodes |->
                  IF graph.class[n] \in GLStateIds
                  THEN STATE_INITIALIZED ELSE STATE_READY]
    /\ is_active = [n \in graph.nodes |-> graph.class[n] \notin GLStateIds]
    /\ visit_time = [n \in graph.nodes |->
                       IF graph.class[n] \in GLStateIds THEN InitTime ELSE 0]
    /\ last_update_time = [n \in graph.nodes |->
                             IF ClassOf(graph.class[n]).update THEN 0 ELSE InitTime]
    /\ balance = [n \in graph.nodes |-> 0]
    /\ updated = [n \in graph.nodes |-> Never]
    /\ log = <<>>
    /\ lastOp = [op |-> "create", node |-> NULL, arg |-> NULL, t |-> Never, ret |-> 0]
    /\ aborted = FALSE
    /\ \E de \in {0, 1}, dv \in GLVals : gl = DriverState(de, dv)
    /\ \E e \in [{2, 3} -> {0, 1}], v \in [{2, 3} -> GLVals] :
          st = [n \in graph.nodes |->
                  IF n \in {2, 3} THEN GLStateOf(graph.class[n], e[n], v[n])
                  ELSE GLStateOf(graph.class[n], 0, 0)]
    /\ layout = [n \in graph.nodes |-> NoPriv]
    /\ priv_data = [n \in graph.nodes |-> Defaults(layout[n])]
    /\ inits = [n \in graph.nodes |->
                  IF ClassOf(graph.class[n]).init /\ ClassOf(graph.class[n]).uninit
                  THEN 1 ELSE 0]
    /\ walk = NoWalk /\ calc = NoCalc

NextDraw ==
    /\ \E n \in Nodes : Draw(n)
    /\ UNCHANGED updated

SpecDraw == InitDraw /\ [][NextDraw]_vars

(***************************************************************************)
(* SpecVisit: visits of the root of an attached scene, with no parent or   *)
(* on behalf of any other node, at any time, and parameter changes that    *)
(* uninitialize a node in between.                                         *)
(***************************************************************************)
RECURSIVE Closure(_, _)
\* the nodes reached from S through the lists kids[p] of the nodes p in via
Closure(S, kids) ==
    LET T == S \cup {c \in Nodes : \E p \in S : \E i \in 1..Len(kids[p]) : kids[p][i] = c}
    IN IF T = S THEN S ELSE Closure(T, kids)
\* through the node-typed parameters of the classes
Below(n) == Closure({n}, graph.params)
\* through every node-typed field, the state overrides included
BelowAll(n) ==
    Closure({n}, [p \in Nodes |-> graph.params[p] \o graph.glstates[p]])

NextVisit ==
    /\ \/ \E t \in Times, code \in ErrCodes, off \in SUBSET Overrides :
             \E from \in {NULL} \cup (Nodes \ {1}), fail \in CanFail({"init"}, {1}) :
                 Visit(1, from, t, fail, code, off)
       \/ \E n \in Nodes, r \in ErrCodes \cup {0} : ParamSet(n, TRUE, r)
    /\ UNCHANGED updated

SpecVisit == InitOn(VisitGraphs, 1) /\ [][NextVisit]_vars

(***************************************************************************)
(* Properties.                                                             *)
(***************************************************************************)
Events(cb, n) == {i \in 1..Len(log) : log[i].cb = cb /\ log[i].node = n}
Reached(n) == Events("reconcile", n) # {}
Visited(n) == Events("visit", n) # {}
LastVisit(n) == log[CHOOSE i \in Events("visit", n) : \A j \in Events("visit", n) : j <= i]
IsChild(c, p) == \E i \in 1..Len(params(p)) : params(p)[i] = c

\* C1: in one release/prefetch walk the class prefetch callback of a node is
\* invoked at most once, however many parent paths lead to the node.
C1_PrefetchAtMostOnce ==
    lastOp.op = "reconcile" =>
        \A n \in Nodes : Cardinality(Events("prefetch", n)) <= 1

\* a walk that reached a shared node more than once and prefetched it
C1_Witness ==
    /\ lastOp.op = "reconcile" /\ lastOp.ret = 0
    /\ \E n \in Nodes : /\ Cardinality(Events("reconcile", n)) >= 2
                        /\ Cardinality(Events("prefetch", n)) = 1
                        /\ state[n] = STATE_READY

\* C3: after a visit pass, a node walked by the default visit carries the
\* activity of the parent that visited it last (the root: active), and the
\* time of the pass.
C3_LastWriterWins ==
    (lastOp.op = "visit" /\ lastOp.ret = 0) =>
        \A n \in Nodes : (Visited(n) /\ ~class(n).visit) =>
            /\ is_active[n] = (IF LastVisit(n).from = NULL THEN TRUE
                               ELSE is_active[LastVisit(n).from])
            /\ visit_time[n] = lastOp.t

\* a shared child reached first through an active, last through an inactive parent
C3_Witness ==
    /\ lastOp.op = "visit" /\ lastOp.ret = 0
    /\ \E c \in Nodes : \E i, j \in Events("visit", c) :
          /\ i < j /\ j = Len(log)
          /\ log[i].from # NULL /\ log[j].from # NULL /\ log[i].from # log[j].from
          /\ is_active[log[i].from] /\ ~is_active[log[j].from]
          /\ ~is_active[c] /\ visit_time[c] = lastOp.t /\ ~class(c).visit

\* C9 as stated: in the release/prefetch walk that follows a successful
\* visit of the same frame, every child of a node is READY when the class
\* prefetch of the node is invoked, and no child of an active node is released.
AfterVisit ==
    /\ lastOp.op = "visit" /\ lastOp.ret = 0 /\ lastOp.node = lastOp'.node
    /\ lastOp'.op = "reconcile" /\ lastOp'.t = lastOp.t /\ ~aborted'

C9_Original ==
    [][AfterVisit =>
         \A i \in 1..Len(log') :
             /\ log'[i].cb = "prefetch" => log'[i].notready = {}
             /\ log'[i].cb = "release" =>
                   ~\E p \in Nodes : /\ IsChild(log'[i].node, p)
                                     /\ is_active[p] /\ visit_time[p] = lastOp.t]_vars

\* C9 amended: in that walk, every child whose is_active flag is set is READY
\* when the class prefetch of its parent is invoked, and only nodes whose
\* is_active flag is clear are released.
C9_ActiveChildrenReadyFirst ==
    [][AfterVisit =>
         \A i \in 1..Len(log') :
             /\ log'[i].cb = "prefetch" => \A c \in log'[i].notready : ~is_active[c]
             /\ log'[i].cb = "release" => ~is_active[log'[i].node]]_vars

\* the parent of an active READY child and of an inactive child was prefetched
C9_Witness ==
    /\ lastOp.op = "reconcile" /\ lastOp.ret = 0
    /\ \E i \in 1..Len(log) :
          /\ log[i].cb = "prefetch" /\ log[i].ok
          /\ visit_time[log[i].node] = lastOp.t
          /\ \E c, d \in Nodes :
                /\ IsChild(c, log[i].node) /\ IsChild(d, log[i].node)
                /\ is_active[c] /\ c \notin log[i].notready /\ state[c] = STATE_READY
                /\ ~is_active[d] /\ d \in log[i].notready

\* C10: after a successful release/prefetch walk at t, a reached node with
\* visit_time = t is READY exactly when its is_active flag is set.
C10_Disposition ==
    (lastOp.op = "reconcile" /\ lastOp.ret = 0) =>
        \A n \in Nodes : (Reached(n) /\ visit_time[n] = lastOp.t) =>
            (state[n] = STATE_READY <=> is_active[n])

\* a walk that prefetched an active node and released an inactive one
C10_Witness ==
    /\ lastOp.op = "reconcile" /\ lastOp.ret = 0
    /\ \E a, b \in Nodes :
          /\ Reached(a) /\ visit_time[a] = lastOp.t /\ is_active[a]
          /\ state[a] = STATE_READY
          /\ Reached(b) /\ visit_time[b] = lastOp.t /\ ~is_active[b]
          /\ state[b] = STATE_IDLE /\ Events("release", b) # {}

\* C2 as stated: once update(node, t) has succeeded, a further update(node, t)
\* with no update at another timestamp in between returns success and does
\* not invoke the class update callback.
ClassUpdateCalled(l, n) == \E i \in 1..Len(l) : l[i].cb = "update" /\ l[i].node = n
Again == lastOp'.op = "update" /\ updated[lastOp'.node] = lastOp'.t

C2_Original ==
    [][Again => /\ ~aborted' /\ lastOp'.ret = 0
                /\ ~ClassUpdateCalled(log', lastOp'.node)]_vars

\* C2 amended: such a further update(node, t) never invokes the class update
\* callback, and returns success unless the node has been uninitialized in
\* between (the call then returns what its re-initialization returns).
C2_UpdateMemoized ==
    [][Again => /\ ~ClassUpdateCalled(log', lastOp'.node)
                /\ state[lastOp'.node] # STATE_UNINITIALIZED
                      => (~aborted' /\ lastOp'.ret = 0)]_vars

\* a second update at the same time that skipped the class update callback
C2_Witness ==
    /\ lastOp.op = "update" /\ lastOp.ret = 0 /\ lastOp.t \in Times
    /\ class(lastOp.node).update
    /\ updated[lastOp.node] = lastOp.t
    /\ last_update_time[lastOp.node] = lastOp.t
    /\ ~ClassUpdateCalled(log, lastOp.node)

\* C4 as stated: for every node, successful class prefetch calls minus class
\* release calls is 1 when the node is READY and 0 otherwise.
Held(n) == IF state[n] = STATE_READY THEN 1 ELSE 0
C4_Original == \A n \in Nodes : balance[n] = Held(n)

\* C4 amended: that holds for every node whose class defines both a prefetch
\* and a release callback, and one operation invokes at most one of the two
\* on a node, so the two strictly alternate starting with prefetch.
C4_Balanced ==
    \A n \in Nodes : (class(n).prefetch /\ class(n).release) =>
        /\ balance[n] = Held(n)
        /\ Cardinality({i \in Events("prefetch", n) : log[i].ok}
                          \cup Events("release", n)) <= 1

\* a node with both callbacks that was READY and has just been released
C4_Witness ==
    /\ lastOp.op = "reconcile" /\ lastOp.ret = 0
    /\ \E n \in Nodes : /\ class(n).prefetch /\ class(n).release
                        /\ Events("release", n) # {}
                        /\ state[n] = STATE_IDLE /\ balance[n] = 0

\* C5 as stated: after any ngl_node_param_set or ngl_node_param_add the node
\* is UNINITIALIZED.
ParamOps == {"param_set", "param_add"}
C5_Original ==
    (lastOp.op \in ParamOps /\ ~aborted) => state[lastOp.node] = STATE_UNINITIALIZED

\* C5 amended: after an ngl_node_param_set or ngl_node_param_add whose key
\* names a parameter of the node, the node is UNINITIALIZED, whether or not
\* the value was accepted.
C5_ParamUninit ==
    (lastOp.op \in ParamOps /\ lastOp.arg = 1 /\ ~aborted)
        => state[lastOp.node] = STATE_UNINITIALIZED

\* a parameter set that took a READY node down
C5_Witness ==
    /\ lastOp.op = "param_set" /\ lastOp.arg = 1 /\ ~aborted
    /\ Events("release", lastOp.node) # {} /\ Events("reset", lastOp.node) # {}
    /\ state[lastOp.node] = STATE_UNINITIALIZED

\* C7: a detach changes no refcount and frees nothing; a node is freed only by
\* an unref that takes its refcount from 1 to 0 while its ctx is NULL; the
\* unref of the last reference of an attached node fails an assertion.
C7_DestroyOnlyDetached ==
    [][/\ lastOp'.op = "detach" => (refcount' = refcount /\ alive' = alive)
       /\ \A n \in Nodes : (alive[n] /\ ~alive'[n]) =>
             /\ lastOp'.op = "unref" /\ ~aborted'
             /\ refcount[n] = 1 /\ refcount'[n] = 0 /\ ctx[n] = NULL
       /\ (lastOp'.op = "unref" /\ refcount[lastOp'.node] = 1
             /\ ctx[lastOp'.node] # NULL) => aborted']_vars

\* an initialized node with two references was detached and lives on
C7_Witness ==
    /\ lastOp.op = "detach" /\ ~aborted
    /\ refcount[lastOp.node] = 2 /\ alive[lastOp.node]
    /\ Events("reset", lastOp.node) # {}
    /\ ctx[lastOp.node] = NULL /\ state[lastOp.node] = STATE_UNINITIALIZED

\* C8: the ctx of a node only changes from NULL to a context or from a context
\* to NULL, and attaching a node owned by another context returns an error and
\* leaves its ctx.
C8_OneContext ==
    [][/\ \A n \in Nodes : ctx'[n] # ctx[n] => (ctx[n] = NULL \/ ctx'[n] = NULL)
       /\ (lastOp'.op = "attach" /\ ~aborted' /\ ctx[lastOp'.node] # NULL
             /\ ctx[lastOp'.node] # lastOp'.arg)
            => (lastOp'.ret < 0 /\ ctx'[lastOp'.node] = ctx[lastOp'.node])]_vars

\* an attach to a second context was refused
C8_Witness ==
    /\ lastOp.op = "attach" /\ lastOp.ret < 0 /\ ~aborted
    /\ ctx[lastOp.node] \in Contexts /\ ctx[lastOp.node] # lastOp.arg

(***************************************************************************)
(* C6: for any node with any ordered list of state overrides, the driver   *)
(* state after ngli_node_draw returns equals the driver state immediately  *)
(* before the call.                                                        *)
(***************************************************************************)
C6_Original ==
    [][lastOp'.op = "draw" => gl' = gl]_vars

(***************************************************************************)
(* C11: the class prefetch callback of a node is invoked, and a node       *)
(* becomes READY, only while the node is active for the current frame      *)
(* (is_active with visit_time equal to the frame time).                    *)
(***************************************************************************)
PrefetchCalled(l, n) == \E i \in 1..Len(l) : l[i].cb = "prefetch" /\ l[i].node = n
Promoted(n) ==
    PrefetchCalled(log', n) \/ (state[n] # STATE_READY /\ state'[n] = STATE_READY)

C11_Original ==
    [][\A n \in Nodes :
          Promoted(n) => (is_active[n] /\ visit_time[n] = lastOp'.t)]_vars

\* C11 amended: the reconcile pass prefetches only nodes that are active for
\* the frame being reconciled; an update prefetches the node it is called on
\* whatever its activity, and no other operation makes a node READY.
C11_PrefetchOnlyActive ==
    [][\A n \in Nodes :
          Promoted(n) =>
              IF lastOp'.op = "update" THEN n = lastOp'.node
              ELSE /\ lastOp'.op = "reconcile"
                   /\ is_active[n] /\ visit_time[n] = lastOp'.t]_vars

\* a reconcile invoked the prefetch callback of a node active for its frame
C11_Witness ==
    /\ lastOp.op = "reconcile" /\ lastOp.ret = 0 /\ ~aborted
    /\ \E n \in Nodes :
          /\ PrefetchCalled(log, n)
          /\ is_active[n] /\ visit_time[n] = lastOp.t
          /\ state[n] = STATE_READY

(***************************************************************************)
(* C12: when the class init or prefetch callback of a node fails during a  *)
(* visit, reconcile or update, the operation returns the error and the     *)
(* failed node is in the lifecycle state it had before the operation.      *)
(***************************************************************************)
WalkOps == {"visit", "reconcile", "update"}
\* the operation just taken failed in the init or prefetch callback of a node
FailedIn(cbs) ==
    /\ lastOp'.op \in WalkOps /\ ~aborted' /\ log' # <<>>
    /\ ~log'[Len(log')].ok /\ log'[Len(log')].cb \in cbs
Failed == log'[Len(log')].node

C12_Original ==
    [][FailedIn({"init", "prefetch"}) =>
          /\ lastOp'.ret \in ErrCodes
          /\ state'[Failed] = state[Failed]]_vars

\* C12 amended: the operation returns the error and the failed node is in
\* the state it had when the failing callback was invoked: UNINITIALIZED
\* after a failed init; after a failed prefetch INITIALIZED or IDLE, which is
\* its state before the operation except that a node that was UNINITIALIZED
\* has been brought to INITIALIZED by the init the operation ran first.
C12_FailedKeepsState ==
    [][/\ FailedIn({"init"}) =>
            /\ lastOp'.ret \in ErrCodes
            /\ state[Failed] = STATE_UNINITIALIZED
            /\ state'[Failed] = STATE_UNINITIALIZED
       /\ FailedIn({"prefetch"}) =>
            /\ lastOp'.ret \in ErrCodes
            /\ state[Failed] # STATE_READY
            /\ state'[Failed] = IF state[Failed] = STATE_UNINITIALIZED
                                THEN STATE_INITIALIZED ELSE state[Failed]]_vars

\* a prefetch failed on a node the same operation had just initialized
C12_Witness ==
    /\ lastOp.op \in WalkOps /\ lastOp.ret \in ErrCodes /\ ~aborted
    /\ Len(log) >= 2
    /\ log[Len(log)].cb = "prefetch" /\ ~log[Len(log)].ok
    /\ \E i \in 1..(Len(log) - 1) :
          log[i].cb = "init" /\ log[i].ok /\ log[i].node = log[Len(log)].node
    /\ state[log[Len(log)].node] = STATE_INITIALIZED

(***************************************************************************)
(* C13: when a callback fails during the visit pass or the reconcile pass, *)
(* no class callback is invoked later in that pass, every node that was    *)
(* transitioned before the failure keeps its new state and every node not  *)
(* yet processed keeps the state it had before the pass.                   *)
(***************************************************************************)
PassFailed ==
    /\ lastOp'.op \in {"visit", "reconcile"} /\ lastOp'.ret < 0 /\ ~aborted'
\* the pass reached the node, or the node that holds it as a state override
Processed(n) ==
    \E i \in 1..Len(log') :
        \/ log'[i].node = n
        \/ \E j \in 1..Len(glstates(log'[i].node)) : glstates(log'[i].node)[j] = n
Succeeded(cb, n) ==
    \E i \in 1..Len(log') : log'[i].cb = cb /\ log'[i].node = n /\ log'[i].ok

C13_AbortKeepsProgress ==
    [][PassFailed =>
          /\ log' # <<>>
          /\ ~log'[Len(log')].ok
          /\ \A i \in 1..(Len(log') - 1) : log'[i].ok
          /\ \A n \in Nodes :
                /\ ~Processed(n) => state'[n] = state[n]
                /\ Succeeded("init", n) => state'[n] # STATE_UNINITIALIZED
                /\ Succeeded("prefetch", n) => state'[n] = STATE_READY
                /\ Succeeded("release", n) => state'[n] = STATE_IDLE]_vars

\* a reconcile pass failed after it had made a node READY, with an active
\* node of the frame still to come
C13_Witness ==
    /\ lastOp.op = "reconcile" /\ lastOp.ret < 0 /\ ~aborted
    /\ \E n, m \in Nodes :
          /\ \E i \in 1..Len(log) : log[i].node = n /\ log[i].ok /\ log[i].cb = "prefetch"
          /\ state[n] = STATE_READY
          /\ \A i \in 1..Len(log) : log[i].node # m
          /\ is_active[m] /\ visit_time[m] = lastOp.t
          /\ state[m] = STATE_INITIALIZED

(***************************************************************************)
(* C14: for every node class, the first successful update(node, t) for a   *)
(* timestamp t leaves the node READY, has invoked the class update         *)
(* callback and has stamped last_update_time = t.                          *)
(***************************************************************************)
FirstUpdate ==
    /\ lastOp'.op = "update" /\ lastOp'.ret = 0 /\ ~aborted'
    /\ last_update_time[lastOp'.node] # lastOp'.t

C14_Original ==
    [][FirstUpdate =>
          /\ state'[lastOp'.node] = STATE_READY
          /\ ClassUpdateCalled(log', lastOp'.node)
          /\ last_update_time'[lastOp'.node] = lastOp'.t]_vars

\* C14 amended: this holds for a class that defines an update callback; for
\* a class without one the update only makes sure the node is initialized:
\* it is not prefetched and last_update_time is not stamped.
C14_FirstUpdate ==
    [][FirstUpdate =>
          IF class(lastOp'.node).update
          THEN /\ state'[lastOp'.node] = STATE_READY
               /\ ClassUpdateCalled(log', lastOp'.node)
               /\ last_update_time'[lastOp'.node] = lastOp'.t
          ELSE /\ state'[lastOp'.node] =
                     IF state[lastOp'.node] = STATE_UNINITIALIZED
                     THEN STATE_INITIALIZED ELSE state[lastOp'.node]
               /\ last_update_time'[lastOp'.node] = last_update_time[lastOp'.node]]_vars

\* a first update of a node with an update callback that was not READY
C14_Witness ==
    /\ lastOp.op = "update" /\ lastOp.ret = 0 /\ ~aborted
    /\ class(lastOp.node).update
    /\ ClassUpdateCalled(log, lastOp.node)
    /\ Events("init", lastOp.node) # {}
    /\ state[lastOp.node] = STATE_READY
    /\ last_update_time[lastOp.node] = lastOp.t

(***************************************************************************)
(* C15: after a successful default visit(root, parent, t), root.is_active  *)
(* equals parent.is_active (true without a parent) and every node          *)
(* reachable from root through any node-typed field of a schema is at      *)
(* least INITIALIZED and has visit_time = t.                               *)
(***************************************************************************)
DefaultVisited ==
    /\ lastOp'.op = "visit" /\ lastOp'.ret = 0 /\ ~aborted'
    /\ \A n \in Below(lastOp'.node) : ~class(n).visit
RootActivity ==
    is_active'[lastOp'.node] =
        IF lastOp'.arg = NULL THEN TRUE ELSE is_active[lastOp'.arg]

C15_Original ==
    [][DefaultVisited =>
          /\ RootActivity
          /\ \A n \in BelowAll(lastOp'.node) :
                state'[n] # STATE_UNINITIALIZED /\ visit_time'[n] = lastOp'.t]_vars

\* C15 amended: the nodes meant are those reachable through the node-typed
\* parameters of the classes; the base parameter "glstates" is not walked,
\* so a state override is not stamped (and is initialized only together
\* with the node that holds it).
C15_VisitReaches ==
    [][DefaultVisited =>
          /\ RootActivity
          /\ \A n \in Below(lastOp'.node) :
                /\ state'[n] # STATE_UNINITIALIZED
                /\ visit_time'[n] = lastOp'.t
                /\ is_active'[n] = is_active'[lastOp'.node]
          /\ \A n \in Nodes \ Below(lastOp'.node) :
                /\ visit_time'[n] = visit_time[n]
                /\ is_active'[n] = is_active[n]]_vars

\* a visit on behalf of an inactive parent that initialized and stamped a
\* node below the root
C15_Witness ==
    /\ lastOp.op = "visit" /\ lastOp.ret = 0 /\ ~aborted
    /\ lastOp.arg # NULL /\ ~is_active[lastOp.arg] /\ ~is_active[lastOp.node]
    /\ \A n \in Below(lastOp.node) : ~class(n).visit
    /\ \E n \in Below(lastOp.node) \ {lastOp.node} :
          /\ Events("init", n) # {}
          /\ visit_time[n] = lastOp.t /\ lastOp.t > 0

(***************************************************************************)
(* C16: after detach(root), root and every node reachable from it through  *)
(* node-typed fields, the state overrides included, have ctx = NULL and    *)
(* are UNINITIALIZED, whatever their state was; detach never fails.        *)
(***************************************************************************)
C16_DetachAll ==
    [][lastOp'.op = "detach" =>
          /\ ~aborted' /\ lastOp'.ret = 0
          /\ \A n \in BelowAll(lastOp'.node) :
                ctx'[n] = NULL /\ state'[n] = STATE_UNINITIALIZED
          /\ \A n \in Nodes \ BelowAll(lastOp'.node) :
                ctx'[n] = ctx[n] /\ state'[n] = state[n]]_vars

\* a detach that released the root and took down a node it holds
C16_Witness ==
    /\ lastOp.op = "detach" /\ ~aborted
    /\ Events("release", lastOp.node) # {}
    /\ \E c \in BelowAll(lastOp.node) \ {lastOp.node} : Events("reset", c) # {}
    /\ \A n \in BelowAll(lastOp.node) : ctx[n] = NULL /\ state[n] = STATE_UNINITIALIZED

(***************************************************************************)
(* C17: every node returned by create(type) for a registered type has      *)
(* refcount 1, state UNINITIALIZED and ctx = NULL; create for an           *)
(* unregistered type fails and constructs no instance.                     *)
(***************************************************************************)
C17_CreateFresh ==
    [][lastOp'.op = "create" =>
          IF lastOp'.arg = NULL /\ lastOp'.ret = 0
          THEN /\ alive'[lastOp'.node] /\ ~alive[lastOp'.node]
               /\ refcount'[lastOp'.node] = 1
               /\ state'[lastOp'.node] = STATE_UNINITIALIZED
               /\ ctx'[lastOp'.node] = NULL
               /\ graph'.class[lastOp'.node] \in RegisteredTypes
          ELSE /\ lastOp'.node = NULL /\ lastOp'.ret < 0
               /\ alive' = alive /\ refcount' = refcount /\ graph' = graph]_vars

\* a node created in the place of one that was freed
C17_Witness ==
    /\ lastOp.op = "create" /\ lastOp.ret = 0 /\ lastOp.node # NULL
    /\ alive[lastOp.node] /\ refcount[lastOp.node] = 1
    /\ state[lastOp.node] = STATE_UNINITIALIZED /\ ctx[lastOp.node] = NULL

\* C18: ngli_node_init called on a node that is INITIALIZED, READY or IDLE
\* returns success, invokes no class callback and leaves every node's state
\* as it was.
C18_InitIdempotent ==
    [][(lastOp'.op = "init" /\ ~aborted'
        /\ state[lastOp'.node] # STATE_UNINITIALIZED)
       => (lastOp'.ret = 0 /\ log' = <<>> /\ state' = state)]_vars

\* an initialisation of an IDLE node whose class has an init callback
C18_Witness ==
    /\ lastOp.op = "init" /\ ~aborted
    /\ class(lastOp.node).init
    /\ state[lastOp.node] = STATE_IDLE
    /\ lastOp.ret = 0 /\ log = <<>>

\* the events of class callback cb on node n in a log
CallsOf(l, cb, n) == Cardinality({i \in 1..Len(l) : l[i].cb = cb /\ l[i].node = n})
ClassCallbacks == {"init", "prefetch", "update", "release", "uninit", "draw"}
\* the reconcile walk went through node n (its visit time was the walk's)
Settled(l, n) == \E i \in 1..Len(l) : l[i].cb = "reconcile" /\ l[i].node = n /\ l[i].flag

\* C19: release acts only on a READY node: the node becomes IDLE, the class
\* release callback runs once and the class uninit callback (and the reset of
\* the private data) does not; on an UNINITIALIZED, INITIALIZED or IDLE node
\* no callback runs and the state stays.  Release is what the reconcile walk
\* applies to each inactive node it settles.
C19_ReleaseOnlyReady ==
    [][~aborted' =>
        /\ \A n \in Nodes :
              /\ CallsOf(log', "release", n) <= 1
              /\ CallsOf(log', "release", n) = 1 =>
                    /\ state[n] = STATE_READY
                    /\ state'[n] \in {STATE_IDLE, STATE_UNINITIALIZED}
        /\ lastOp'.op = "reconcile" =>
              \A n \in Nodes : (~is_active[n] /\ Settled(log', n)) =>
                 IF state[n] # STATE_READY
                 THEN /\ state'[n] = state[n]
                      /\ \A cb \in ClassCallbacks : CallsOf(log', cb, n) = 0
                 ELSE lastOp'.ret = 0 =>
                      /\ state'[n] = STATE_IDLE
                      /\ CallsOf(log', "release", n) = IF class(n).release THEN 1 ELSE 0
                      /\ CallsOf(log', "uninit", n) = 0
                      /\ CallsOf(log', "reset", n) = 0]_vars

\* a reconcile walk that released a READY node with both a release and an
\* uninit callback, and settled an inactive UNINITIALIZED node as well
C19_Witness ==
    /\ lastOp.op = "reconcile" /\ ~aborted /\ lastOp.ret = 0
    /\ \E n \in Nodes :
          /\ class(n).release /\ class(n).uninit
          /\ CallsOf(log, "release", n) = 1 /\ state[n] = STATE_IDLE
    /\ \E n \in Nodes :
          /\ Settled(log, n) /\ ~is_active[n]
          /\ state[n] = STATE_UNINITIALIZED

\* the callbacks of a log, in the order they ran
CallbackOrder(l) == [i \in 1..Len(l) |-> l[i].cb]
\* what a full uninit of node n runs from the state s
UninitOrder(n, s) ==
    IF s = STATE_UNINITIALIZED THEN <<>>
    ELSE (IF s = STATE_READY /\ class(n).release THEN <<"release">> ELSE <<>>)
         \o (IF class(n).uninit THEN <<"uninit">> ELSE <<>>)
         \o <<"reset">>

\* C20: the full uninit of a node (what a parameter change applies to it)
\* runs the class release callback if the node is READY, then the class
\* uninit callback, then the reset of the non-parameter private data, all on
\* that node, and leaves it UNINITIALIZED; on an UNINITIALIZED node it runs
\* nothing.
C20_UninitOrder ==
    [][(lastOp'.op = "param_set" /\ ~aborted') =>
        /\ \A i \in 1..Len(log') : log'[i].node = lastOp'.node
        /\ CallbackOrder(log') = UninitOrder(lastOp'.node, state[lastOp'.node])
        /\ state'[lastOp'.node] = STATE_UNINITIALIZED]_vars

\* a parameter change of a node that was READY, of a class with both callbacks
C20_Witness ==
    /\ lastOp.op = "param_set" /\ ~aborted
    /\ CallbackOrder(log) = <<"release", "uninit", "reset">>
    /\ state[lastOp.node] = STATE_UNINITIALIZED

\* the operation was a parameter set or add that found its parameter
ParamChanged(op) == op.op \in {"param_set", "param_add"} /\ op.arg = 1

StepsOf(l, n) ==
    LET own == SelectSeq(l, LAMBDA ev : \/ ev.cb \in {"honor", "restore"} /\ ev.from = n
                                        \/ ev.cb = "draw" /\ ev.node = n)
    IN [i \in 1..Len(own) |-> <<own[i].cb, own[i].node>>]
ScopedDraw(n) ==
    LET L == glstates(n)
    IN [i \in 1..Len(L) |-> <<"honor", L[i]>>] \o <<<<"draw", n>>>>
          \o [i \in 1..Len(L) |-> <<"restore", L[i]>>]
\* the restore snapshot s of override o holds what the driver g had
ReadFrom(g, o, s) ==
    CASE graph.class[o] = "GLColorState"       -> Sav(s.rgba) = g.color_writemask
      [] graph.class[o] = "GLPolygonModeState" -> Sav(s.mode) = g.polygon_mode
      [] OTHER                                 -> Sav(s.enabled) = g.caps[s.capability]
\* the driver g has the configured value of override o
AppliedIn(g, o) ==
    CASE graph.class[o] = "GLColorState"       -> g.color_writemask = Cfg(st[o].rgba)
      [] graph.class[o] = "GLPolygonModeState" -> g.polygon_mode = Cfg(st[o].mode)
      [] OTHER -> g.caps[st[o].capability] = IF Cfg(st[o].enabled) # 0 THEN 1 ELSE 0
DrawSeen(l, n) == l[CHOOSE i \in 1..Len(l) : l[i].cb = "draw" /\ l[i].node = n].seen

\* C22: ngli_node_draw of a node whose class has a draw callback honors its
\* overrides in list order (each one reads the driver into its snapshot before
\* it applies its configured value), then calls the draw callback exactly
\* once, with the configured values applied, then restores the overrides in
\* the same list order; for a class without a draw callback nothing is read,
\* written or called.
C22_ScopedDraw ==
    [][(lastOp'.op = "draw" /\ ~aborted') =>
        LET n == lastOp'.node
            L == glstates(n)
        IN IF class(n).draw
           THEN /\ StepsOf(log', n) = ScopedDraw(n)
                /\ L # <<>> =>
                      /\ CallsOf(log', "honor", L[1]) = 1 => ReadFrom(gl, L[1], st'[L[1]])
                      /\ AppliedIn(DrawSeen(log', n), L[Len(L)])
           ELSE log' = <<>> /\ gl' = gl /\ st' = st]_vars

\* a draw of a node with two different overrides whose first one found the
\* driver in another state than the one it configures
C22_Witness ==
    /\ lastOp.op = "draw" /\ ~aborted
    /\ Len(glstates(lastOp.node)) = 2
    /\ glstates(lastOp.node)[1] # glstates(lastOp.node)[2]
    /\ StepsOf(log, lastOp.node) = ScopedDraw(lastOp.node)
    /\ LET o == glstates(lastOp.node)[1]
       IN /\ graph.class[o] = "GLBlendState"
          /\ Cfg(st[o].enabled) # Sav(st[o].enabled)

\* the overrides honored in a log
Honored(l) == {l[i].node : i \in {j \in 1..Len(l) : l[j].cb = "honor"}}
\* overrides of a single driver value, saved and restored without condition
PlainOverrides == {"GLColorState", "GLPolygonModeState"}

\* C23 as stated: nested overrides compose; after the draw of a container
\* whose draw callback draws a node with its own overrides, the same override
\* node possibly on both, the driver state is what it was before the draw.
\* (Stated on the overrides of one driver value, which a single draw restores.)
C23_Original ==
    [][(lastOp'.op = "draw" /\ ~aborted'
        /\ graph.class[lastOp'.node] = "Group"
        /\ \A o \in Honored(log') : graph.class[o] \in PlainOverrides)
       => gl' = gl]_vars

\* the snapshot s of a blend or stencil override holds the enable flag and
\* every correlated field of the driver g
SavedTogether(g, o, s) ==
    /\ Sav(s.enabled) = g.caps[s.capability]
    /\ graph.class[o] = "GLBlendState" =>
          /\ Sav(s.src_rgb) = g.blend_src_rgb /\ Sav(s.dst_rgb) = g.blend_dst_rgb
          /\ Sav(s.src_alpha) = g.blend_src_alpha /\ Sav(s.dst_alpha) = g.blend_dst_alpha
          /\ Sav(s.mode_rgb) = g.blend_equation_rgb
          /\ Sav(s.mode_alpha) = g.blend_equation_alpha
    /\ graph.class[o] = "GLStencilState" =>
          /\ Sav(s.writemask) = g.stencil_writemask /\ Sav(s.func) = g.stencil_func
          /\ Sav(s.func_ref) = g.stencil_ref /\ Sav(s.func_mask) = g.stencil_value_mask
          /\ Sav(s.op_sfail) = g.stencil_fail
          /\ Sav(s.op_dpfail) = g.stencil_pass_depth_fail
          /\ Sav(s.op_dppass) = g.stencil_pass_depth_pass

\* C24 as stated: the draw of a node with one blend or stencil override,
\* whatever the enable flag it configures and the enable flag of the driver,
\* saves the enable flag and every correlated driver field before it applies
\* the override, and leaves them all at their values of before the draw.
C24_Original ==
    [][(lastOp'.op = "draw" /\ ~aborted' /\ class(lastOp'.node).draw
        /\ Len(glstates(lastOp'.node)) = 1
        /\ graph.class[glstates(lastOp'.node)[1]] \in {"GLBlendState", "GLStencilState"})
       => LET o == glstates(lastOp'.node)[1]
          IN SavedTogether(gl, o, st'[o]) /\ gl' = gl]_vars

\* the nodes a visit pass reached, from its log
VisitedIn(l) == {l[i].node : i \in {j \in 1..Len(l) : l[j].cb = "visit"}}
\* the operation left node n as it was: same state, no class callback
Untouched(n) ==
    /\ state'[n] = state[n]
    /\ \A cb \in ClassCallbacks : CallsOf(log', cb, n) = 0

Overrides_of(n) == {glstates(n)[i] : i \in 1..Len(glstates(n))}
\* the class init callback of node o failed in the log
InitFailed(l, o) == \E i \in 1..Len(l) : l[i].cb = "init" /\ l[i].node = o /\ ~l[i].ok

\* C26 as stated: after a successful init of a node, every node of its
\* override list is at least INITIALIZED.
C26_Original ==
    [][(lastOp'.op = "init" /\ ~aborted' /\ lastOp'.ret = 0) =>
        \A o \in Overrides_of(lastOp'.node) : state'[o] # STATE_UNINITIALIZED]_vars

\* C26 amended: an init of an UNINITIALIZED node that returns success leaves
\* the node and every node of its override list at least INITIALIZED, and
\* when the init callback of one of them fails the node's init returns that
\* error (and the node stays UNINITIALIZED); an init of a node that is
\* already initialized returns success without looking at the list.
C26_InitOverrides ==
    [][(lastOp'.op = "init" /\ ~aborted') =>
        LET n == lastOp'.node
        IN IF state[n] = STATE_UNINITIALIZED
           THEN /\ lastOp'.ret = 0 =>
                     /\ state'[n] = STATE_INITIALIZED
                     /\ \A o \in Overrides_of(n) : state'[o] # STATE_UNINITIALIZED
                /\ \A o \in Overrides_of(n) :
                     InitFailed(log', o) =>
                        lastOp'.ret \in ErrCodes /\ state'[n] = STATE_UNINITIALIZED
           ELSE lastOp'.ret = 0 /\ state' = state]_vars

\* an init that failed in the second entry of the override list, after the
\* class init of the node and the first entry had passed
C26_Witness ==
    /\ lastOp.op = "init" /\ ~aborted /\ lastOp.ret \in ErrCodes
    /\ Len(glstates(lastOp.node)) = 2
    /\ InitFailed(log, glstates(lastOp.node)[2])
    /\ state[glstates(lastOp.node)[1]] = STATE_INITIALIZED
    /\ state[lastOp.node] = STATE_UNINITIALIZED

\* every node a log mentions
Mentioned(l) == {l[i].node : i \in 1..Len(l)}

\* C27: every live node has refcount >= 1; ref adds exactly one, unref takes
\* exactly one and frees the node exactly when the count was 1; what is freed
\* is out of reach: no live node holds it and no operation (attach, detach,
\* visit, reconcile, ref, unref) is applied to or walks through a freed node.
C27_RefcountPositive ==
    /\ [](\A n \in Nodes : alive[n] => refcount[n] >= 1)
    /\ [](\A n \in Nodes : ~alive[n] => ParentRefs(n) = 0)
    /\ [][~aborted' =>
           /\ lastOp'.op = "ref" =>
                 refcount'[lastOp'.node] = refcount[lastOp'.node] + 1
           /\ lastOp'.op = "unref" =>
                 /\ refcount'[lastOp'.node] = refcount[lastOp'.node] - 1
                 /\ alive'[lastOp'.node] <=> refcount[lastOp'.node] # 1
           /\ lastOp'.node # NULL /\ lastOp'.op # "create" => alive[lastOp'.node]
           /\ \A n \in Mentioned(log') : alive[n]]_vars

\* an unref that freed a node, which gave up its reference on a child that
\* lives on
C27_Witness ==
    /\ lastOp.op = "unref" /\ ~aborted
    /\ ~alive[lastOp.node] /\ refcount[lastOp.node] = 0
    /\ \E c \in Nodes :
          /\ c \in {params(lastOp.node)[i] : i \in 1..Len(params(lastOp.node))}
          /\ alive[c] /\ refcount[c] >= 1

\* the ctx assertion of node_release or node_uninit failed in the operation
AssertFailed(l) == \E i \in 1..Len(l) : l[i].cb = "assert"

C29_Original ==
    /\ \A n \in Nodes : alive[n] /\ ctx[n] # NULL =>
          \A m \in BelowAll(n) : ctx[m] = ctx[n]
    /\ ~(aborted /\ lastOp.op \in {"visit", "update"} /\ ctx[lastOp.node] # NULL)

\* C30 as stated: once the class init callback of a node has returned success
\* it is not invoked again on the node before its class uninit callback has
\* run, and after a detach every successful class init of the detached nodes
\* has been followed by a class uninit.
C30_Original ==
    /\ \A n \in Nodes : class(n).init /\ class(n).uninit => inits[n] <= 1
    /\ (lastOp.op = "detach" /\ ~aborted) =>
          \A n \in BelowAll(lastOp.node) :
             class(n).init /\ class(n).uninit => inits[n] = 0

\* C31 as stated: whenever update(node, t) returns success for a node whose
\* class has an update callback, the node is READY, and if the call had to
\* initialize the node again (after a parameter set/add or a detach and
\* re-attach) it has invoked the class update callback for t.
C31_Original ==
    (/\ lastOp.op = "update" /\ ~aborted /\ lastOp.ret = 0
     /\ class(lastOp.node).update)
        => /\ state[lastOp.node] = STATE_READY
           /\ Events("init", lastOp.node) # {}
                 => \E i \in Events("update", lastOp.node) : log[i].ok

\* C32 as stated: attach is all-or-nothing: when attach(root, ctx) returns an
\* error because a node reachable from root is owned by a different context,
\* no node's ctx differs from its value before the call.
C32_Original ==
    [][(lastOp'.op = "attach" /\ ~aborted' /\ lastOp'.ret < 0) => ctx' = ctx]_vars

\* C33: reconcile is idempotent: right after a successful reconcile(root, t),
\* a second reconcile(root, t) succeeds, invokes no class prefetch or release
\* callback and leaves the state of every node unchanged.
ReconcileAgain ==
    /\ lastOp.op = "reconcile" /\ ~aborted /\ lastOp.ret = 0
    /\ lastOp'.op = "reconcile" /\ lastOp'.node = lastOp.node /\ lastOp'.t = lastOp.t

C33_ReconcileIdempotent ==
    [][ReconcileAgain =>
          /\ ~aborted' /\ lastOp'.ret = 0
          /\ state' = state
          /\ \A i \in 1..Len(log') : log'[i].cb \notin {"prefetch", "release"}]_vars

\* a reconcile that found a prefetched node READY and an inactive node
\* released already, and invoked no callback
C33_Witness ==
    /\ lastOp.op = "reconcile" /\ ~aborted /\ lastOp.ret = 0
    /\ \A i \in 1..Len(log) : log[i].cb \notin {"init", "prefetch", "release"}
    /\ \E n \in Nodes : /\ Reached(n) /\ visit_time[n] = lastOp.t /\ is_active[n]
                        /\ class(n).prefetch /\ state[n] = STATE_READY
    /\ \E n \in Nodes : /\ Reached(n) /\ visit_time[n] = lastOp.t /\ ~is_active[n]
                        /\ class(n).release /\ state[n] = STATE_IDLE

\* C34: in a graph whose classes all use the default visit, after a
\* successful visit(root, NULL, t) followed by a successful reconcile(root, t)
\* every node reachable from root through the node-typed parameters of the
\* classes is active and READY, whatever the sharing.
VisitThenReconcile ==
    /\ lastOp.op = "visit" /\ lastOp.arg = NULL /\ ~aborted /\ lastOp.ret = 0
    /\ lastOp'.op = "reconcile" /\ lastOp'.node = lastOp.node /\ lastOp'.t = lastOp.t
    /\ ~aborted' /\ lastOp'.ret = 0
    /\ \A n \in Below(lastOp.node) : ~class(n).visit

C34_AllActiveReady ==
    [][VisitThenReconcile =>
          \A n \in Below(lastOp'.node) :
              is_active'[n] /\ state'[n] = STATE_READY]_vars

\* the walk of a frame over a default-visit graph with a node held by two
\* parents: the shared node was prefetched and is READY
C34_Witness ==
    /\ lastOp.op = "reconcile" /\ ~aborted /\ lastOp.ret = 0
    /\ \A n \in Below(lastOp.node) :
          ~class(n).visit /\ visit_time[n] = lastOp.t /\ is_active[n]
    /\ \E n \in Below(lastOp.node) :
          /\ Cardinality({p \in Nodes : IsChild(n, p)}) > 1
          /\ Cardinality(Events("reconcile", n)) > 1
          /\ state[n] = STATE_READY

\* C36 as stated: for a node that has not been updated since its creation and
\* whose class has an update callback, a successful update(node, t) invokes
\* the class update callback, whatever the timestamp t.
C36_Original ==
    [][(/\ lastOp'.op = "update" /\ ~aborted' /\ lastOp'.ret = 0
        /\ class(lastOp'.node).update
        /\ updated[lastOp'.node] = Never)
           => ClassUpdateCalled(log', lastOp'.node)]_vars

\* C35: a visit and a reconcile called on the root of a finite acyclic graph
\* terminate, whatever the sharing of sub-trees, and return 0 or the first
\* error.  Every step of a walk in progress lowers a natural number, the
\* steps the calls on the stack can still take (a shared sub-tree counts
\* once for each path to it), and the walk ends with what the recursive
\* call computes from the memory at the call.
RECURSIVE Size(_)
RECURSIVE SizeFrom(_, _)
SizeFrom(n, k) ==
    IF k > Len(params(n)) THEN 1
    ELSE 1 + Size(params(n)[k]) + SizeFrom(n, k + 1)
Size(n) == 1 + SizeFrom(n, 1)
RECURSIVE RankFrom(_, _)
RankFrom(stack, k) ==
    IF k > Len(stack) THEN 0
    ELSE (IF stack[k].i = 0 THEN Size(stack[k].node)
          ELSE SizeFrom(stack[k].node, stack[k].i)) + RankFrom(stack, k + 1)
Rank(w) == RankFrom(w.stack, 1)

Finished == walk.stack # <<>> /\ walk'.stack = <<>> /\ ~aborted'
WholeCall ==
    IF walk.kind = "visit"
    THEN ngli_node_visit(walk.start, walk.e, walk.root, NULL)
    ELSE ngli_node_honor_release_prefetch(walk.start, walk.e, walk.root)
SameAsCall ==
    /\ walk'.ret = WholeCall.ret
    /\ walk'.ret \in {0, walk.e.code}
    /\ state' = WholeCall.state /\ balance' = WholeCall.balance
    /\ is_active' = WholeCall.is_active /\ visit_time' = WholeCall.visit_time

C35_WalksTerminate ==
    [][/\ walk.stack # <<>> => Rank(walk') < Rank(walk)
       /\ Finished => SameAsCall]_vars

\* a walk that returned the error of a node held by two parents, after the
\* first path to it and before the second
C35_Witness ==
    /\ walk.kind # "none" /\ walk.stack = <<>> /\ ~aborted
    /\ walk.ret < 0 /\ walk.e.fail # NoFail
    /\ Cardinality({p \in Nodes : IsChild(walk.e.fail[2], p)}) > 1
    /\ Rank([walk EXCEPT !.stack = <<Frame(walk.root, NULL)>>]) > Cardinality(Nodes) + 1

\* C37 as stated: for the integer and unsigned-integer uniform classes, after
\* a live change of the value on a node whose live_id is set, every component
\* of the exposed value is >= its live_min and <= its live_max, for all
\* configured live_min and live_max.
LiveClamped == calc.op = "live" /\ calc.type \in IntTypes /\ calc.id
C37_Original ==
    LiveClamped =>
        \A i \in DOMAIN calc.data :
            calc.min[i] <= calc.data[i] /\ calc.data[i] <= calc.max[i]

\* C37 amended: every component of the exposed value is <= its live_max, and
\* >= its live_min where live_min <= live_max; where live_min > live_max the
\* component is live_max, whatever value was asked for.
C37_Clamped ==
    LiveClamped =>
        \A i \in DOMAIN calc.data :
            /\ calc.data[i] <= calc.max[i]
            /\ calc.min[i] <= calc.max[i] => calc.min[i] <= calc.data[i]
            /\ calc.min[i] > calc.max[i] => calc.data[i] = calc.max[i]
            /\ (calc.min[i] <= calc.req[i] /\ calc.req[i] <= calc.max[i])
                  => calc.data[i] = calc.req[i]

\* a live change of a two-component value: one component raised to live_min,
\* the other lowered to live_max
C37_Witness ==
    /\ LiveClamped /\ calc.type = "ivec2"
    /\ calc.req[1] < calc.min[1] /\ calc.min[1] <= calc.max[1]
    /\ calc.req[2] > calc.max[2] /\ calc.min[2] <= calc.max[2]
    /\ calc.data = <<calc.min[1], calc.max[2]>>

\* C38: a live change of the matrix value on a UniformMat4 node that has a
\* transform chain fails with NGL_ERROR_INVALID_USAGE and leaves the exposed
\* matrix unchanged; on a node without a transform it succeeds and the
\* exposed matrix is the new value.
C38_Mat4LiveChange ==
    [][(calc'.op = "live" /\ calc'.type = "mat4") =>
          IF calc.transform
          THEN calc'.ret = NGL_ERROR_INVALID_USAGE /\ calc'.data = calc.data
          ELSE calc'.ret = 0 /\ calc'.data = calc'.req]_vars

\* a refused live change: the exposed matrix is not the one asked for
C38_Witness ==
    /\ calc.op = "live" /\ calc.type = "mat4" /\ calc.transform
    /\ calc.ret = NGL_ERROR_INVALID_USAGE /\ calc.data # calc.req

\* C39 as stated: initializing a render node with a geometry whose vertices
\* are not vec3 or whose UV coordinates are not vec2 fails with Unsupported,
\* and with a geometry lacking UV coordinates fails with InvalidUsage; in each
\* case ngli_node_init returns the error and the node stays UNINITIALIZED.
InitTried == lastOp.op = "init" /\ calc.op = "init" /\ ~aborted /\ calc.geometry
BadLayout ==
    \/ calc.vertices_type # "NGLI_TYPE_VEC3"
    \/ calc.uvcoords /\ calc.uvcoords_type # "NGLI_TYPE_VEC2"
C39_Original ==
    InitTried =>
        /\ BadLayout => /\ lastOp.ret = NGL_ERROR_UNSUPPORTED
                        /\ state[1] = STATE_UNINITIALIZED
        /\ ~calc.uvcoords => /\ lastOp.ret = NGL_ERROR_INVALID_USAGE
                             /\ state[1] = STATE_UNINITIALIZED

\* C39 amended: a geometry lacking UV coordinates fails with InvalidUsage,
\* whatever its vertices; a geometry that has UV coordinates and whose
\* vertices are not vec3 or whose UV coordinates are not vec2 fails with
\* Unsupported; in each case ngli_node_init returns the error and the node
\* stays UNINITIALIZED.
C39_GeometryChecked ==
    InitTried =>
        /\ ~calc.uvcoords => /\ lastOp.ret = NGL_ERROR_INVALID_USAGE
                             /\ state[1] = STATE_UNINITIALIZED
        /\ (calc.uvcoords /\ BadLayout) => /\ lastOp.ret = NGL_ERROR_UNSUPPORTED
                                           /\ state[1] = STATE_UNINITIALIZED

\* the init of a node whose geometry has neither vec3 vertices nor UV
\* coordinates: InvalidUsage
C39_Witness ==
    /\ InitTried /\ ~calc.uvcoords /\ calc.vertices_type # "NGLI_TYPE_VEC3"
    /\ lastOp.ret = NGL_ERROR_INVALID_USAGE /\ state[1] = STATE_UNINITIALIZED
    /\ Events("init", 1) # {}

\* C40 as stated: for every header size v >= 1 and every power-of-two
\* alignment a, ALIGN(v, a) is a multiple of a and is >= v, so the private
\* data placed at that offset is aligned and the alignment assertions of
\* node_create hold.
C40_Original ==
    calc.op = "create" =>
        /\ calc.node_size % calc.align = 0
        /\ calc.node_size >= calc.size
        /\ calc.data % calc.align = 0
        /\ ~aborted

====
